---- MODULE Spec2Model ----
(***************************************************************************)
(* State-machine model of the odai on-device runtime:                      *)
(*   - ODAISqliteDb   (chat store, flattened nested transactions)          *)
(*   - ODAILlamaEngine (language model, per-chat decode contexts, the      *)
(*                      streaming generation loop)                         *)
(*   - ODAIRagEngine  (model registry, session loading, generate_turn)     *)
(*                                                                         *)
(* Three specifications share the definitions:                             *)
(*   SpecDb     the ODAIDb interface called in any order                   *)
(*   SpecEngine the ODAIBackendEngine interface called in any order        *)
(*   Spec       the ODAIRagEngine interface on top of both                 *)
(***************************************************************************)
EXTENDS Integers, Sequences, FiniteSets, TLC

(***************************************************************************)
(* Bounds of the model                                                     *)
(***************************************************************************)
\* deepest nesting a caller of the ODAIDb interface builds by itself
MaxDepth == 2
\* longest batch handed to insert_chat_messages
MaxBatch == 2
\* most rows of chat_messages per chat
MaxRows == 2

\* most tokens the model generates in one call of the generation loop before
\* it ends the generation or fails: as checked in depth (SpecGen), and in the
\* calls made between other operations (SpecEngine, Spec)
MaxGenTokens == 45
MaxChatTokens == 1
\* and in the turns whose callback is asked before the generation ends (SpecTurn)
MaxTurnTokens == 21
\* most turns generated on one cached decode context
MaxTurns == 1
\* deepest nesting left behind by calls of the application on the SDK
MaxStuck == 1

\* context_params.n_ctx of a language-model context
N_CTX == 2048
\* the flush threshold of the generation loop
FlushEvery == 20

ChatIds == {"c1", "c2"}
ModelNames == {"m1", "m2"}
\* model files the engine is asked to load
Paths == {"pA", "pB"}
\* files named to the registry: pA2 is pA moved, pX cannot be read
FilePaths == {"pA", "pA2", "pB", "pX"}
\* every model at the file it is loaded from
HomeFiles == {<<"m1", "pA">>, <<"m2", "pB">>, <<"m1", "pX">>}

\* Token pieces as bytes: "a", and the two bytes of U+00E9 split over two tokens
TokA  == <<97>>
TokE1 == <<195>>
TokE2 == <<169>>
\* the three bytes of U+20AC and the four of U+1F600, a token each
TokEu1 == <<226>>
TokEu2 == <<130>>
TokEu3 == <<172>>
TokSm1 == <<240>>
TokSm2 == <<159>>
TokSm3 == <<152>>
TokSm4 == <<128>>
\* What the sampler yields, cyclically, until the model ends the generation
AsciiScripts == {<<TokA>>}
Utf8Scripts ==
  { <<TokA>>, <<TokA, TokE1, TokE2>>, <<TokEu1, TokEu2, TokEu3>>,
    <<TokA, TokA, TokSm1, TokSm2, TokSm3, TokSm4>> }

\* Text as bytes
TextSys == <<115>>
TextQ   == <<113>>
TextA   == <<97>>

\* role CHECK constraint of chat_messages
Roles == {"user", "assistant", "system"}

\* ChatConfig values handed to create_chat; the last one is not sane
ChatConfigs ==
  { [persistence |-> TRUE,  system_prompt |-> TextSys, modelName |-> "m1"],
    [persistence |-> FALSE, system_prompt |-> TextSys, modelName |-> "m2"],
    [persistence |-> TRUE,  system_prompt |-> <<>>,    modelName |-> "m1"] }
NoConfig == [persistence |-> FALSE, system_prompt |-> <<>>, modelName |-> ""]
\* ChatConfig values handed to the SDK: the chats run on model m1, one of
\* them without persistence; or the config is not sane
SdkChatConfigs(chat) ==
  { [persistence |-> (chat = "c1"), system_prompt |-> TextSys, modelName |-> "m1"],
    [persistence |-> TRUE, system_prompt |-> <<>>, modelName |-> "m1"] }

\* ChatConfig::is_sane (with LLMModelConfig::is_sane)
ChatConfigIsSane(cfg) == cfg.system_prompt # <<>> /\ cfg.modelName # ""

\* messages handed to insert_chat_messages; role "tool" breaks the CHECK
MsgInputs ==
  { [role |-> "user", content |-> TextQ],
    [role |-> "assistant", content |-> TextA],
    [role |-> "tool", content |-> TextA] }

RECURSIVE SeqsUpTo(_, _)
SeqsUpTo(S, n) ==
  IF n = 0 THEN {<<>>}
  ELSE SeqsUpTo(S, n - 1) \cup
       {Append(s, x) : s \in {t \in SeqsUpTo(S, n - 1) : Len(t) = n - 1}, x \in S}

Batches == SeqsUpTo(MsgInputs, MaxBatch)

\* What the environment makes fail during one ODAIDb call, at most one of:
\* the physical BEGIN, the physical COMMIT, the exec of statement number at.
Faults ==
  { f \in [begin : BOOLEAN, commit : BOOLEAN, at : 0..MaxBatch] :
      ~(f.begin /\ f.commit) /\ (f.at # 0 => ~f.begin /\ ~f.commit) }

VARIABLES
  \* ---- ODAISqliteDb
  m_db,                 \* the connection is open (m_db != nullptr)
  m_transaction_depth,  \* nesting depth
  m_transaction,        \* a SQLite::Transaction handle is held
  tables,               \* what the connection reads: includes uncommitted writes
  durable,              \* what is committed in the database file
  \* ---- history of the ODAIDb calls
  phys,                 \* physical BEGINs / COMMITs issued since the depth last left 0
  dbCall,               \* the last ODAIDb call: its name, chat, result, what it issued
  batch,                \* the messages of the last insert_chat_messages call
  \* ---- ODAILlamaEngine
  isInitialized,
  llm_model_config,     \* llm_model_config.modelPath ("" before the first load)
  llmModel,             \* the path the resident model was loaded from ("" for nullptr)
  llmVocab,             \* the path of the model llmVocab points into ("" for nullptr)
  chat_context,         \* chat_id -> [model, n_past, turns]: context and sampler
  gen,                  \* the call of generate_streaming_response_impl in flight
  \* ---- history of the ODAIBackendEngine calls
  engCall,              \* the last call that returned
  \* ---- ODAISdk and ODAIRagEngine
  m_sdkInitialized,
  m_ragEngine,          \* "bound": the orchestrator exists and its m_db and
                        \* m_backendEngine are the instances the SDK holds;
                        \* "unbound": there is none, or an instance it points
                        \* to has been replaced
  m_modelPathCache,     \* model name -> path
  buffer_ctx,           \* the StreamingBufferContext of the generate_turn in flight
  \* ---- history of the calls of the application
  ragCall               \* the last call that returned

dbVars == <<m_db, m_transaction_depth, m_transaction, tables, durable, phys,
            dbCall, batch>>
engVars == <<isInitialized, llm_model_config, llmModel, llmVocab, chat_context,
             gen, engCall>>
ragVars == <<m_sdkInitialized, m_ragEngine, m_modelPathCache, buffer_ctx, ragCall>>
vars == <<dbVars, engVars, ragVars>>

(***************************************************************************)
(* ODAISqliteDb as operators on a record D of its fields                   *)
(***************************************************************************)
EmptyTables == [chats |-> {}, chat_messages |-> {}, models |-> {}]

DbNow ==
  [db |-> m_db, depth |-> m_transaction_depth, txn |-> m_transaction,
   tables |-> tables, durable |-> durable, phys |-> phys,
   ev |-> {}, ret |-> TRUE]

\* A statement that writes: inside a physical transaction the write is
\* pending, outside of one SQLite autocommits it.
DbWrite(D, t) ==
  IF D.txn THEN [D EXCEPT !.tables = t]
           ELSE [D EXCEPT !.tables = t, !.durable = t]

\* ~SQLite::Transaction of an uncommitted transaction: ROLLBACK
DbDropHandle(D) ==
  IF D.txn THEN [D EXCEPT !.txn = FALSE, !.tables = D.durable,
                          !.ev = @ \cup {"ROLLBACK"}]
           ELSE D

\* the history starts afresh with each begin at depth 0
NoPhys == [opens |-> 0, commits |-> 0, deepest |-> 0]

\* begin_transaction.  physFail: BEGIN throws (it always does while the
\* connection is inside a transaction already).
DbBegin(D, physFail) ==
  IF ~D.db THEN [D EXCEPT !.ret = FALSE]
  ELSE IF D.depth + 1 = 1
       THEN IF physFail \/ D.txn
            THEN \* catch: depth == 1 -> depth = 0, m_transaction.reset()
                 [DbDropHandle(D) EXCEPT !.depth = 0, !.ret = FALSE,
                                         !.phys = NoPhys]
            ELSE [D EXCEPT !.depth = 1, !.txn = TRUE, !.ret = TRUE,
                           !.ev = @ \cup {"BEGIN"},
                           !.phys = [opens |-> 1, commits |-> 0, deepest |-> 1]]
       ELSE [D EXCEPT !.depth = D.depth + 1, !.ret = TRUE,
                      !.phys.deepest = IF D.depth + 1 > @ THEN D.depth + 1 ELSE @]

\* a commit that forgets the nesting: every level commits physically
DbCommitEveryLevel(D, physFail) ==
  IF ~D.db THEN [D EXCEPT !.ret = FALSE]
  ELSE IF D.depth > 0
       THEN IF D.txn /\ ~physFail
            THEN [D EXCEPT !.depth = D.depth - 1, !.txn = (D.depth - 1 > 0),
                           !.durable = D.tables, !.ret = TRUE,
                           !.ev = @ \cup {"COMMIT"}, !.phys.commits = @ + 1]
            ELSE [D EXCEPT !.depth = D.depth - 1, !.ret = ~D.txn,
                           !.ev = @ \cup {"COMMIT"}, !.phys.commits = @ + 1]
       ELSE [D EXCEPT !.ret = FALSE]

\* a commit that, called at depth 0, commits what a handle left behind holds
DbCommitAtDepthZero(D, physFail) ==
  IF ~D.db THEN [D EXCEPT !.ret = FALSE]
  ELSE IF D.depth > 1 THEN [D EXCEPT !.depth = D.depth - 1, !.ret = TRUE]
  ELSE IF D.txn /\ ~physFail
       THEN [D EXCEPT !.depth = 0, !.txn = FALSE, !.durable = D.tables,
                      !.ret = TRUE, !.ev = @ \cup {"COMMIT"},
                      !.phys.commits = @ + 1]
       ELSE [D EXCEPT !.depth = 0, !.ret = (D.depth > 0 /\ ~D.txn),
                      !.ev = IF D.txn THEN @ \cup {"COMMIT"} ELSE @]

\* commit_transaction.  physFail: COMMIT throws; the handle is left in place
\* and the transaction stays open.
DbCommit(D, physFail) ==
  IF ~D.db THEN [D EXCEPT !.ret = FALSE]
  ELSE IF D.depth > 0
       THEN IF D.depth - 1 = 0
            THEN IF D.txn
                 THEN IF physFail
                      THEN [D EXCEPT !.depth = 0, !.ret = FALSE,
                                     !.ev = @ \cup {"COMMIT"},
                                     !.phys.commits = @ + 1]
                      ELSE [D EXCEPT !.depth = 0, !.txn = FALSE,
                                     !.durable = D.tables, !.ret = TRUE,
                                     !.ev = @ \cup {"COMMIT"},
                                     !.phys.commits = @ + 1]
                 ELSE [D EXCEPT !.depth = 0, !.ret = TRUE]
            ELSE [D EXCEPT !.depth = D.depth - 1, !.ret = TRUE]
       ELSE [D EXCEPT !.ret = FALSE]

\* rollback_transaction
DbRollback(D) ==
  IF ~D.db THEN [D EXCEPT !.ret = FALSE]
  ELSE [DbDropHandle(D) EXCEPT !.depth = 0, !.ret = TRUE]

\* rows of one chat, and get_chat_history: ORDER BY sequence_index
RowsOf(t, chat) == {r \in t.chat_messages : r.chat_id = chat}

RECURSIVE SortBySeq(_)
SortBySeq(rows) ==
  IF rows = {} THEN <<>>
  ELSE LET lo == CHOOSE r \in rows : \A q \in rows : r.sequence_index <= q.sequence_index
       IN <<lo>> \o SortBySeq(rows \ {lo})

GetChatHistory(t, chat) ==
  [i \in 1..Cardinality(RowsOf(t, chat)) |->
     LET r == SortBySeq(RowsOf(t, chat))[i]
     IN [role |-> r.role, content |-> r.content]]

\* the greatest index once more instead of the one after it
MaxSequenceIndex(t, chat) ==
  IF RowsOf(t, chat) = {} THEN 0
  ELSE CHOOSE m \in {r.sequence_index : r \in RowsOf(t, chat)} :
         \A r \in RowsOf(t, chat) : r.sequence_index <= m

\* COALESCE((SELECT MAX(sequence_index) + 1 ...), 0)
NextSequenceIndex(t, chat) ==
  IF RowsOf(t, chat) = {} THEN 0
  ELSE 1 + CHOOSE m \in {r.sequence_index : r \in RowsOf(t, chat)} :
             \A r \in RowsOf(t, chat) : r.sequence_index <= m

\* the loop of insert_chat_messages: exec of message number failAt throws,
\* and so does a message whose role breaks the CHECK constraint
RECURSIVE InsertLoop(_, _, _, _, _)
InsertLoop(D, chat, msgs, i, failAt) ==
  IF i > Len(msgs) THEN [D |-> D, threw |-> FALSE]
  ELSE IF i = failAt \/ msgs[i].role \notin Roles
       THEN [D |-> D, threw |-> TRUE]
       ELSE InsertLoop(
              DbWrite(D, [D.tables EXCEPT !.chat_messages = @ \cup
                            {[chat_id |-> chat, role |-> msgs[i].role,
                              content |-> msgs[i].content,
                              sequence_index |-> NextSequenceIndex(D.tables, chat)]}]),
              chat, msgs, i + 1, failAt)

\* insert_chat_messages.  f = [begin, commit: BOOLEAN, at: message whose exec throws]
DbInsertChatMessages(D, chat, msgs, f) ==
  IF ~D.db THEN [D EXCEPT !.ret = FALSE]
  ELSE IF msgs = <<>> THEN [D EXCEPT !.ret = TRUE]
  ELSE LET D1 == DbBegin(D, f.begin)          \* result not looked at
           L  == InsertLoop(D1, chat, msgs, 1, f.at)
       IN IF L.threw
          THEN [DbRollback(L.D) EXCEPT !.ret = FALSE]
          ELSE [DbCommit(L.D, f.commit) EXCEPT !.ret = TRUE]   \* result not looked at

\* create_chat: the INSERT into chats is statement 1, the system prompt as the
\* chat's first message is statement 2.
DbCreateChat(D, chat, cfg, f) ==
  IF ~D.db THEN [D EXCEPT !.ret = FALSE]
  ELSE IF ~ChatConfigIsSane(cfg) THEN [D EXCEPT !.ret = FALSE]
  ELSE LET D1 == DbBegin(D, f.begin)          \* result not looked at
       IN IF f.at = 1 \/ \E c \in D1.tables.chats : c.chat_id = chat
          THEN \* insert_chat.exec() throws (PRIMARY KEY): caught by the outer
               \* handler, which neither commits nor rolls back
               [D1 EXCEPT !.ret = FALSE]
          ELSE LET D2 == DbWrite(D1, [D1.tables EXCEPT !.chats = @ \cup
                                        {[chat_id |-> chat, chat_config |-> cfg]}])
                   D3 == DbInsertChatMessages(D2, chat,
                           <<[role |-> "system", content |-> cfg.system_prompt]>>,
                           [f EXCEPT !.at = IF f.at = 2 THEN 1 ELSE 0])
                   D4 == DbCommit(D3, f.commit)   \* results not looked at
               IN [D4 EXCEPT !.ret = TRUE]

\* chat_id_exists: Statement::exec throws when the SELECT yields a row, so
\* the answer is false for a stored chat and true for any other id
DbChatIdExists(D, chat) == ~(\E c \in D.tables.chats : c.chat_id = chat)

\* get_chat_config
DbGetChatConfig(D, chat) ==
  IF D.db /\ \E c \in D.tables.chats : c.chat_id = chat
  THEN [ret |-> TRUE,
        chat_config |-> (CHOOSE c \in D.tables.chats : c.chat_id = chat).chat_config]
  ELSE [ret |-> FALSE, chat_config |-> NoConfig]

\* get_chat_history: fails for a chat without rows
DbGetChatHistory(D, chat) ==
  IF D.db /\ RowsOf(D.tables, chat) # {}
  THEN [ret |-> TRUE, messages |-> GetChatHistory(D.tables, chat)]
  ELSE [ret |-> FALSE, messages |-> <<>>]

\* The model registry of ODAIDb.  register_model: name is the primary key.
DbRegisterModel(D, name, path, type, checksum, fail) ==
  IF ~D.db \/ fail \/ \E m \in D.tables.models : m.name = name
  THEN [D EXCEPT !.ret = FALSE]
  ELSE [DbWrite(D, [D.tables EXCEPT !.models = @ \cup
                      {[name |-> name, path |-> path, type |-> type,
                        checksum |-> checksum]}])
          EXCEPT !.ret = TRUE]

\* get_model_path, get_model_checksum
DbGetModel(D, name) ==
  IF D.db /\ \E m \in D.tables.models : m.name = name
  THEN LET m == CHOOSE r \in D.tables.models : r.name = name
       IN [ret |-> TRUE, path |-> m.path, checksum |-> m.checksum]
  ELSE [ret |-> FALSE, path |-> "", checksum |-> ""]

\* update_model_path: fails for an unknown name
DbUpdateModelPath(D, name, new_path, fail) ==
  IF ~D.db \/ fail \/ ~(\E m \in D.tables.models : m.name = name)
  THEN [D EXCEPT !.ret = FALSE]
  ELSE [DbWrite(D, [D.tables EXCEPT !.models =
                      {IF m.name = name THEN [m EXCEPT !.path = new_path] ELSE m
                         : m \in @}])
          EXCEPT !.ret = TRUE]

(***************************************************************************)
(* The ODAIDb interface as actions                                         *)
(***************************************************************************)
DbFields(D, op, chat, msgs) ==
  /\ m_db' = D.db
  /\ m_transaction_depth' = D.depth
  /\ m_transaction' = D.txn
  /\ tables' = D.tables
  /\ durable' = D.durable
  /\ phys' = D.phys
  /\ dbCall' = [op |-> op, chat |-> chat, ret |-> D.ret, ev |-> D.ev]
  /\ batch' = msgs

\* an ODAIDb call made by the application itself has returned
DbDone(D, op, chat, msgs) ==
  /\ DbFields(D, op, chat, msgs)
  /\ UNCHANGED <<engVars, ragVars>>

\* initialize_db: opens the connection on the (empty or existing) file
InitializeDb ==
  /\ ~m_db
  /\ DbDone([DbNow EXCEPT !.db = TRUE], "initialize_db", "", <<>>)

BeginTransaction ==
  /\ m_transaction_depth < MaxDepth
  /\ \E physFail \in BOOLEAN :
       DbDone(DbBegin(DbNow, physFail), "begin_transaction", "", <<>>)

CommitTransaction ==
  \E physFail \in BOOLEAN :
    DbDone(DbCommit(DbNow, physFail), "commit_transaction", "", <<>>)

RollbackTransaction ==
  DbDone(DbRollback(DbNow), "rollback_transaction", "", <<>>)

InsertChatMessages ==
  \E chat \in ChatIds, msgs \in Batches,
     f \in Faults :
    /\ f.at <= Len(msgs)
    /\ m_transaction_depth <= MaxDepth
    /\ Cardinality(RowsOf(tables, chat)) + Len(msgs) <= MaxRows
    /\ DbDone(DbInsertChatMessages(DbNow, chat, msgs, f), "insert_chat_messages",
              chat, msgs)

CreateChat ==
  \E chat \in ChatIds, cfg \in ChatConfigs,
     f \in Faults :
    /\ f.at <= 2
    /\ m_transaction_depth < MaxDepth
    /\ Cardinality(RowsOf(tables, chat)) + 1 <= MaxRows
    /\ DbDone(DbCreateChat(DbNow, chat, cfg, f), "create_chat", chat, <<>>)

DbInit ==
  /\ m_db = FALSE
  /\ m_transaction_depth = 0
  /\ m_transaction = FALSE
  /\ tables = EmptyTables
  /\ durable = EmptyTables
  /\ phys = NoPhys
  /\ dbCall = [op |-> "none", chat |-> "", ret |-> TRUE, ev |-> {}]
  /\ batch = <<>>

DbNext ==
  \/ InitializeDb
  \/ BeginTransaction
  \/ CommitTransaction
  \/ RollbackTransaction
  \/ InsertChatMessages
  \/ CreateChat

(***************************************************************************)
(* ODAILlamaEngine as operators on a record E of its fields                *)
(***************************************************************************)
NoContexts == [c \in {} |-> [model |-> "", n_past |-> 0, turns |-> 0]]
NoContext == [model |-> "", n_past |-> 0]

\* the generation loop is not running
Idle == [pc |-> "idle"]

EngNow ==
  [isInitialized |-> isInitialized, llm_model_config |-> llm_model_config,
   llmModel |-> llmModel, llmVocab |-> llmVocab, chat_context |-> chat_context,
   gen |-> gen, ret |-> TRUE]

\* What llama_model_load_from_file / llama_model_get_vocab yield
LoadOutcomes == {"ok", "model_fail", "vocab_fail"}

\* The cache is cleared only once the new model is there
EngLoadLanguageModelClearOnSuccess(E, path, outcome) ==
  IF ~E.isInitialized THEN [E EXCEPT !.ret = FALSE]
  ELSE IF E.llm_model_config = path THEN [E EXCEPT !.ret = TRUE]
  ELSE IF outcome = "model_fail"
       THEN [E EXCEPT !.llmModel = "", !.ret = FALSE]
       ELSE IF outcome = "vocab_fail"
            THEN [E EXCEPT !.llmModel = path, !.llmVocab = "", !.ret = FALSE]
            ELSE [E EXCEPT !.llmModel = path, !.llmVocab = path,
                           !.chat_context = NoContexts,
                           !.llm_model_config = path, !.ret = TRUE]

\* The same without the chat_context.clear() of line 164
EngLoadLanguageModelKeepCache(E, path, outcome) ==
  IF ~E.isInitialized THEN [E EXCEPT !.ret = FALSE]
  ELSE IF E.llm_model_config = path THEN [E EXCEPT !.ret = TRUE]
  ELSE IF outcome = "model_fail"
       THEN [E EXCEPT !.llmModel = "", !.ret = FALSE]
       ELSE IF outcome = "vocab_fail"
            THEN [E EXCEPT !.llmModel = path, !.llmVocab = "", !.ret = FALSE]
            ELSE [E EXCEPT !.llmModel = path, !.llmVocab = path,
                           !.llm_model_config = path, !.ret = TRUE]

\* The load is made anew whatever path is recorded as loaded
EngLoadLanguageModelAlwaysReloads(E, path, outcome) ==
  IF ~E.isInitialized THEN [E EXCEPT !.ret = FALSE]
  ELSE LET E1 == [E EXCEPT !.chat_context = NoContexts]
       IN IF outcome = "model_fail"
          THEN [E1 EXCEPT !.llmModel = "", !.ret = FALSE]
          ELSE IF outcome = "vocab_fail"
               THEN [E1 EXCEPT !.llmModel = path, !.llmVocab = "", !.ret = FALSE]
               ELSE [E1 EXCEPT !.llmModel = path, !.llmVocab = path,
                               !.llm_model_config = path, !.ret = TRUE]

\* load_language_model: the cache is cleared before the load is attempted;
\* the stored path changes only when model and vocabulary are both there
EngLoadLanguageModel(E, path, outcome) ==
  IF ~E.isInitialized THEN [E EXCEPT !.ret = FALSE]
  ELSE IF E.llm_model_config = path THEN [E EXCEPT !.ret = TRUE]
  ELSE LET E1 == [E EXCEPT !.chat_context = NoContexts]
       IN IF outcome = "model_fail"
          THEN [E1 EXCEPT !.llmModel = "", !.ret = FALSE]
          ELSE IF outcome = "vocab_fail"
               THEN [E1 EXCEPT !.llmModel = path, !.llmVocab = "", !.ret = FALSE]
               ELSE [E1 EXCEPT !.llmModel = path, !.llmVocab = path,
                               !.llm_model_config = path, !.ret = TRUE]

\* get_new_llama_context (LLM): none when no model is resident or llama fails
GetNewLlamaContext(E, fail) ==
  IF E.llmModel = "" \/ fail THEN NoContext
  ELSE [model |-> E.llmModel, n_past |-> 0]

\* tokenize: the number of tokens of a text of n pieces, one more for the
\* begin-of-sequence token when the text is the first in its context; none
\* without vocabulary
Tokenize(E, n, is_first) ==
  IF E.llmVocab = "" THEN 0 ELSE n + (IF is_first THEN 1 ELSE 0)

\* the tokens are decoded without asking whether they fit the window
LoadTokensUnchecked(ctx, n, decodeFail) ==
  IF n = 0 THEN [ctx |-> ctx, ok |-> TRUE]
  ELSE IF decodeFail THEN [ctx |-> ctx, ok |-> FALSE]
  ELSE [ctx |-> [ctx EXCEPT !.n_past = @ + n], ok |-> TRUE]

\* load_tokens_into_context_impl: all of the n tokens enter the window or none
LoadTokensIntoContextImpl(ctx, n, decodeFail) ==
  IF n = 0 THEN [ctx |-> ctx, ok |-> TRUE]
  ELSE IF ctx.n_past + n > N_CTX THEN [ctx |-> ctx, ok |-> FALSE]
  ELSE IF decodeFail THEN [ctx |-> ctx, ok |-> FALSE]
  ELSE [ctx |-> [ctx EXCEPT !.n_past = @ + n], ok |-> TRUE]

\* load_into_context: tokenize, then load; an empty token list is a failure
LoadIntoContext(E, ctx, n, decodeFail) ==
  LET prompt_tokens == Tokenize(E, n, ctx.n_past = 0)
  IN IF prompt_tokens = 0 THEN [ctx |-> ctx, ok |-> FALSE]
     ELSE LoadTokensIntoContextImpl(ctx, prompt_tokens, decodeFail)

\* The formatted prompt, measured in tokens: each message is one piece for its
\* role and one per byte of content; a history of the system message alone
\* gets a synthetic empty user turn; the generation prompt is one more piece.
RECURSIVE MessagesSize(_)
MessagesSize(msgs) ==
  IF msgs = <<>> THEN 0
  ELSE 1 + Len(Head(msgs).content) + MessagesSize(Tail(msgs))

FormatChatMessagesToPrompt(E, msgs, add_generation_prompt, tmplFail) ==
  IF E.llmModel = "" \/ tmplFail THEN 0
  ELSE LET synthetic == IF Len(msgs) = 1 /\ msgs[1].role = "system"
                        THEN 1 ELSE 0
       IN MessagesSize(msgs) + synthetic
            + (IF add_generation_prompt THEN 1 ELSE 0)

\* nothing is held back
WholeLength(buffer) == Len(buffer)

\* a byte is held back only when it is the last one and opens a character
LeadByteHeldBack(buffer) ==
  IF Len(buffer) = 0 THEN 0
  ELSE IF buffer[Len(buffer)] >= 192 THEN Len(buffer) - 1
  ELSE Len(buffer)

\* get_safe_utf8_length: the length of the longest prefix of buffer that does
\* not end inside a multi-byte character
RECURSIVE SafeScan(_, _)
SafeScan(buffer, i) ==
  LET len == Len(buffer)
  IN IF i >= 4 \/ i >= len THEN len
     ELSE LET c == buffer[len - i]
          IN IF c < 128 THEN len
             ELSE IF c < 192 THEN SafeScan(buffer, i + 1)
             ELSE IF c < 224 THEN (IF i >= 1 THEN len ELSE len - 1 - i)
             ELSE IF c < 240 THEN (IF i >= 2 THEN len ELSE len - 1 - i)
             ELSE IF c < 248 THEN (IF i >= 3 THEN len ELSE len - 1 - i)
             ELSE SafeScan(buffer, i + 1)

GetSafeUtf8Length(buffer) == IF Len(buffer) = 0 THEN 0 ELSE SafeScan(buffer, 0)

\* detokenize: the pieces of the tokens, concatenated
RECURSIVE Detokenize(_)
Detokenize(tokens) ==
  IF tokens = <<>> THEN <<>> ELSE Head(tokens) \o Detokenize(Tail(tokens))

\* flush_utf8_safe_output on the record G of the running loop: the buffered
\* tokens go to the output buffer, its safe prefix becomes the chunk handed
\* to the callback, the rest stays
FlushUtf8SafeOutput(G) ==
  LET out == G.output_buffer \o Detokenize(G.buffered_tokens)
      safe == GetSafeUtf8Length(out)
  IN [G EXCEPT !.output_buffer = SubSeq(out, safe + 1, Len(out)),
               !.chunk = SubSeq(out, 1, safe),
               !.chunkTokens = Append(@, Len(G.buffered_tokens)),
               !.chunks = Append(@, SubSeq(out, 1, safe)),
               !.tails = Append(@, SubSeq(out, safe + 1, Len(out))),
               !.buffered_tokens = <<>>]

\* The locals of generate_streaming_response_impl when it is entered, with
\* what an observer of the call counts: the callback invocations, the tokens
\* each chunk covers, whether the callback has answered false, the tokens
\* sampled since its last answer and the count when it answered, the tokens
\* the sampler has produced, whether it has ended the generation, whether
\* the end-of-generation token has entered the context, the chunks handed to
\* the callback and the bytes each flush has held back, the pieces of all the
\* tokens generated
NewRun(op, chat, ctx, script, limit) ==
  [pc |-> "loop", op |-> op, chat |-> chat, ctx |-> ctx,
   script |-> script, limit |-> limit,
   buffered_tokens |-> <<>>, total_tokens |-> 0, output_buffer |-> <<>>,
   chunk |-> <<>>, atEog |-> FALSE, ret |-> 0,
   callbacks |-> 0, chunkTokens |-> <<>>, refused |-> FALSE, sinceCb |-> 0,
   totalAtCb |-> 0, produced |-> 0, sawEog |-> FALSE, fedEog |-> FALSE,
   chunks |-> <<>>, tails |-> <<>>, text |-> <<>>]

\* the call returns n
RunReturns(E, n) == [E EXCEPT !.gen.pc = "done", !.gen.ret = n]
\* a call that returns -1 before the loop is entered
RunRefused(E, op, chat) ==
  RunReturns([E EXCEPT !.gen = NewRun(op, chat, NoContext, <<>>, 0)], -1)

\* the decode context the running loop works on: its own, or the cached one
GenCtx(E) ==
  IF E.gen.chat = "" THEN E.gen.ctx ELSE E.chat_context[E.gen.chat]
WithGenCtx(E, ctx) ==
  IF E.gen.chat = "" THEN [E EXCEPT !.gen.ctx = ctx]
  ELSE [E EXCEPT !.chat_context[E.gen.chat] = ctx]

\* generate_streaming_response_impl, lines 406-417: the prompt enters the context
EngGenImplBegin(E, op, chat, ctx, prompt, script, limit, decodeFail) ==
  LET E0 == [E EXCEPT !.gen = NewRun(op, chat, ctx, script, limit)]
      r == LoadIntoContext(E0, GenCtx(E0), prompt, decodeFail)
  IN IF ~r.ok THEN RunReturns(E0, -1) ELSE WithGenCtx(E0, r.ctx)

\* the context of the one-shot completion is kept among the cached contexts
EngGenerateStreamingResponseCaches(E, prompt, hasCallback, ctxFail, samplerFail, script, limit, decodeFail) ==
  LET op == "generate_streaming_response"
      ctx == GetNewLlamaContext(E, ctxFail)
      kept == [c \in DOMAIN E.chat_context \cup {"oneshot"} |->
                 IF c = "oneshot"
                 THEN [model |-> ctx.model, n_past |-> 0, turns |-> 0]
                 ELSE E.chat_context[c]]
  IN IF ~E.isInitialized THEN RunRefused(E, op, "")
     ELSE IF E.llmModel = "" \/ E.llmVocab = "" THEN RunRefused(E, op, "")
     ELSE IF ~hasCallback THEN RunRefused(E, op, "")
     ELSE IF ctx = NoContext THEN RunRefused(E, op, "")
     ELSE IF samplerFail THEN RunRefused(E, op, "")
     ELSE EngGenImplBegin([E EXCEPT !.chat_context = kept], op, "", ctx,
                          prompt, script, limit, decodeFail)

\* generate_streaming_response: a fresh context and sampler for this call
EngGenerateStreamingResponse(E, prompt, hasCallback, ctxFail, samplerFail, script, limit, decodeFail) ==
  LET op == "generate_streaming_response"
      ctx == GetNewLlamaContext(E, ctxFail)
  IN IF ~E.isInitialized THEN RunRefused(E, op, "")
     ELSE IF E.llmModel = "" \/ E.llmVocab = "" THEN RunRefused(E, op, "")
     ELSE IF ~hasCallback THEN RunRefused(E, op, "")
     ELSE IF ctx = NoContext THEN RunRefused(E, op, "")
     ELSE IF samplerFail THEN RunRefused(E, op, "")
     ELSE EngGenImplBegin(E, op, "", ctx, prompt, script, limit, decodeFail)

\* generate_streaming_chat_response: the cached context and sampler of the chat
EngGenerateStreamingChatResponse(E, chat, prompt, hasCallback, tmplFail, script, limit, decodeFail) ==
  LET op == "generate_streaming_chat_response"
      formatted == FormatChatMessagesToPrompt(
                     E, <<[role |-> "user", content |-> prompt]>>, TRUE, tmplFail)
  IN IF chat \notin DOMAIN E.chat_context THEN RunRefused(E, op, chat)
     ELSE IF ~hasCallback THEN RunRefused(E, op, chat)
     ELSE EngGenImplBegin(
            [E EXCEPT !.chat_context[chat].turns = @ + 1],
            op, chat, NoContext, formatted, script, limit, decodeFail)

\* the flush neither clears the token buffer nor keeps an unsafe rest apart
FlushKeepingTokens(G) ==
  LET out == G.output_buffer \o Detokenize(G.buffered_tokens)
      safe == GetSafeUtf8Length(out)
  IN [G EXCEPT !.output_buffer = SubSeq(out, safe + 1, Len(out)),
               !.chunk = SubSeq(out, 1, safe),
               !.chunkTokens = Append(@, Len(G.buffered_tokens))]

\* the callback is about to be invoked with the chunk of the flush
InvokeCallback(G, atEog) ==
  [FlushUtf8SafeOutput(G) EXCEPT !.pc = "callback", !.atEog = atEog,
                                 !.callbacks = @ + 1]

\* the sampled token is not fed back into the context
EngGenNextTokenUnfed(E, sample, decodeFail) ==
  LET G == [E.gen EXCEPT !.sinceCb = @ + 1,
                         !.produced = @ + (IF sample = "tok" THEN 1 ELSE 0),
                         !.sawEog = (sample = "eog")]
      E1 == [E EXCEPT !.gen = G]
      generated_token == G.script[(G.total_tokens % Len(G.script)) + 1]
      G2 == [E1.gen EXCEPT !.buffered_tokens = Append(@, generated_token),
                           !.total_tokens = @ + 1,
                           !.text = @ \o generated_token]
  IN IF sample = "fail" THEN RunReturns([E EXCEPT !.gen.sinceCb = @ + 1], -1)
     ELSE IF sample = "eog"
          THEN IF Len(G.buffered_tokens) > 0
               THEN [E1 EXCEPT !.gen = InvokeCallback(E1.gen, TRUE)]
               ELSE RunReturns(E1, G.total_tokens)
          ELSE IF Len(G2.buffered_tokens) % FlushEvery = 0
               THEN [E1 EXCEPT !.gen = InvokeCallback(G2, FALSE)]
               ELSE [E1 EXCEPT !.gen = G2]

\* One iteration of the loop of generate_streaming_response_impl (lines
\* 419-451) up to the call of the callback or the next iteration.
\* generate_next_token samples and feeds the sampled token, the
\* end-of-generation token too, to the context before the loop looks at it.
EngGenNextToken(E, sample, decodeFail) ==
  LET G == [E.gen EXCEPT !.sinceCb = @ + 1,
                         !.produced = @ + (IF sample = "tok" THEN 1 ELSE 0),
                         !.sawEog = (sample = "eog")]
      E0 == [E EXCEPT !.gen = G]
      r == LoadTokensIntoContextImpl(GenCtx(E0), 1, decodeFail)
      E1 == WithGenCtx(E0, r.ctx)
      generated_token == G.script[(G.total_tokens % Len(G.script)) + 1]
      G2 == [E1.gen EXCEPT !.buffered_tokens = Append(@, generated_token),
                           !.total_tokens = @ + 1,
                           !.text = @ \o generated_token]
  IN IF sample = "fail" THEN RunReturns([E EXCEPT !.gen.sinceCb = @ + 1], -1)
     ELSE IF ~r.ok THEN RunReturns(E0, -1)
     ELSE IF sample = "eog"
          THEN IF Len(G.buffered_tokens) > 0
               THEN [E1 EXCEPT !.gen = InvokeCallback([E1.gen EXCEPT !.fedEog = TRUE], TRUE)]
               ELSE RunReturns([E1 EXCEPT !.gen.fedEog = TRUE], G.total_tokens)
          ELSE IF Len(G2.buffered_tokens) % FlushEvery = 0
               THEN [E1 EXCEPT !.gen = InvokeCallback(G2, FALSE)]
               ELSE [E1 EXCEPT !.gen = G2]

\* the loop carries on whatever the callback answers
EngCallbackIgnored(E, answer) ==
  LET E1 == [E EXCEPT !.gen.refused = ~answer, !.gen.sinceCb = 0,
                      !.gen.totalAtCb = E.gen.total_tokens]
  IN IF E.gen.atEog THEN RunReturns(E1, E.gen.total_tokens)
     ELSE [E1 EXCEPT !.gen.pc = "loop"]

\* The callback returns (lines 435-438 and 448-449): false ends the call with
\* the count so far, true ends it after the last flush or goes on sampling
EngCallbackReturns(E, answer) ==
  LET E1 == [E EXCEPT !.gen.refused = ~answer, !.gen.sinceCb = 0,
                      !.gen.totalAtCb = E.gen.total_tokens]
  IN IF ~answer THEN RunReturns(E1, E.gen.total_tokens)
     ELSE IF E.gen.atEog THEN RunReturns(E1, E.gen.total_tokens)
     ELSE [E1 EXCEPT !.gen.pc = "loop"]

\* the context is cached before the prompt is loaded into it
EngLoadChatMessagesStoreFirst(E, chat, msgs, ctxFail, samplerFail, tmplFail, decodeFail) ==
  LET ctx == GetNewLlamaContext(E, ctxFail)
      formatted == FormatChatMessagesToPrompt(E, msgs, FALSE, tmplFail)
      r == LoadIntoContext(E, ctx, formatted, decodeFail)
      stored == [E EXCEPT !.chat_context =
                   [c \in DOMAIN @ \cup {chat} |->
                      IF c = chat
                      THEN [model |-> r.ctx.model, n_past |-> r.ctx.n_past, turns |-> 0]
                      ELSE @[c]]]
  IN IF ~E.isInitialized THEN [E EXCEPT !.ret = FALSE]
     ELSE IF chat = "" THEN [E EXCEPT !.ret = FALSE]
     ELSE IF chat \in DOMAIN E.chat_context THEN [E EXCEPT !.ret = TRUE]
     ELSE IF ctx = NoContext THEN [E EXCEPT !.ret = FALSE]
     ELSE IF samplerFail THEN [E EXCEPT !.ret = FALSE]
     ELSE [stored EXCEPT !.ret = formatted # 0 /\ r.ok]

\* load_chat_messages_into_context
EngLoadChatMessagesIntoContext(E, chat, msgs, ctxFail, samplerFail, tmplFail, decodeFail) ==
  LET ctx == GetNewLlamaContext(E, ctxFail)
      formatted == FormatChatMessagesToPrompt(E, msgs, FALSE, tmplFail)
      r == LoadIntoContext(E, ctx, formatted, decodeFail)
  IN IF ~E.isInitialized THEN [E EXCEPT !.ret = FALSE]
     ELSE IF chat = "" THEN [E EXCEPT !.ret = FALSE]
     ELSE IF chat \in DOMAIN E.chat_context THEN [E EXCEPT !.ret = TRUE]
     ELSE IF ctx = NoContext THEN [E EXCEPT !.ret = FALSE]
     ELSE IF samplerFail THEN [E EXCEPT !.ret = FALSE]
     ELSE IF formatted = 0 THEN [E EXCEPT !.ret = FALSE]
     ELSE IF ~r.ok THEN [E EXCEPT !.ret = FALSE]
     ELSE [E EXCEPT !.ret = TRUE,
             !.chat_context =
                [c \in DOMAIN @ \cup {chat} |->
                   IF c = chat
                   THEN [model |-> r.ctx.model, n_past |-> r.ctx.n_past, turns |-> 0]
                   ELSE @[c]]]

\* is_chat_context_loaded
IsChatContextLoaded(E, chat) == chat \in DOMAIN E.chat_context

\* unload_chat_context: false when there was nothing to unload
EngUnloadChatContext(E, chat) ==
  IF chat \in DOMAIN E.chat_context
  THEN [E EXCEPT !.ret = TRUE,
                 !.chat_context = [c \in DOMAIN @ \ {chat} |-> @[c]]]
  ELSE [E EXCEPT !.ret = FALSE]

(***************************************************************************)
(* The ODAIBackendEngine interface: one action per call; a streaming call  *)
(* is a start, the iterations of its loop and the answers of its callback  *)
(***************************************************************************)
\* op, chat (or path), the bool or the count returned, the chats that were
\* cached when the call was made, the locals of a streaming call at its return
NoCall ==
  [op |-> "none", chat |-> "", ret |-> TRUE, n |-> 0, had |-> {}, run |-> Idle]

EngFields(E) ==
  /\ isInitialized' = E.isInitialized
  /\ llm_model_config' = E.llm_model_config
  /\ llmModel' = E.llmModel
  /\ llmVocab' = E.llmVocab
  /\ chat_context' = E.chat_context

\* an ODAIBackendEngine call that returns a bool has returned
EngDone(E, op, chat) ==
  /\ EngFields(E)
  /\ gen' = E.gen
  /\ engCall' = [op |-> op, chat |-> chat, ret |-> E.ret, n |-> 0,
                 had |-> DOMAIN chat_context, run |-> Idle]
  /\ UNCHANGED <<dbVars, ragVars>>

\* a streaming call has made a step: it goes on, or it has returned its count
GenDone(E) ==
  /\ EngFields(E)
  /\ IF E.gen.pc = "done"
     THEN /\ gen' = Idle
          /\ engCall' = [op |-> E.gen.op, chat |-> E.gen.chat,
                         ret |-> E.gen.ret >= 0, n |-> E.gen.ret,
                         had |-> DOMAIN chat_context, run |-> E.gen]
     ELSE /\ gen' = E.gen
          /\ engCall' = [NoCall EXCEPT !.op = "running"]
  /\ UNCHANGED <<dbVars, ragVars>>

\* prompts of a one-shot completion, in pieces: empty, short, one that leaves
\* room for MaxGenTokens tokens and no more, one that does not fit the window
PromptSizes == {0, 2, N_CTX - MaxGenTokens - 1, N_CTX}

\* histories handed to load_chat_messages_into_context; the last one is
\* longer than the context window
Histories ==
  { <<[role |-> "system", content |-> TextSys]>>,
    <<[role |-> "system", content |-> TextSys],
      [role |-> "user", content |-> TextQ],
      [role |-> "assistant", content |-> TextA]>>,
    <<[role |-> "system", content |-> [i \in 1..N_CTX |-> 115]]>> }

InitializeEngine ==
  /\ gen.pc = "idle"
  /\ EngDone([EngNow EXCEPT !.isInitialized = TRUE], "initialize_engine", "")

LoadLanguageModel ==
  /\ gen.pc = "idle"
  /\ \E path \in Paths, outcome \in LoadOutcomes :
       EngDone(EngLoadLanguageModel(EngNow, path, outcome),
               "load_language_model", path)

LoadChatMessagesIntoContext ==
  /\ gen.pc = "idle"
  /\ \E chat \in ChatIds, msgs \in Histories,
        fail \in {"none", "context", "sampler", "template", "decode"} :
       EngDone(EngLoadChatMessagesIntoContext(
                 EngNow, chat, msgs, fail = "context", fail = "sampler",
                 fail = "template", fail = "decode"),
               "load_chat_messages_into_context", chat)

UnloadChatContext ==
  /\ gen.pc = "idle"
  /\ \E chat \in ChatIds :
       EngDone(EngUnloadChatContext(EngNow, chat), "unload_chat_context", chat)

GenerateStreamingResponse(limit, scripts, prompts) ==
  /\ gen.pc = "idle"
  /\ \E prompt \in prompts, script \in scripts,
        fail \in {"none", "callback", "context", "sampler", "decode"} :
       GenDone(EngGenerateStreamingResponse(
                 EngNow, prompt, fail # "callback", fail = "context",
                 fail = "sampler", script, limit, fail = "decode"))

GenerateStreamingChatResponse(limit, scripts) ==
  /\ gen.pc = "idle"
  /\ \E chat \in ChatIds, script \in scripts,
        fail \in {"none", "callback", "template", "decode"} :
       /\ chat \in DOMAIN chat_context => chat_context[chat].turns < MaxTurns
       /\ GenDone(EngGenerateStreamingChatResponse(
                    EngNow, chat, TextQ, fail # "callback", fail = "template",
                    script, limit, fail = "decode"))

\* the sampler yields a token, ends the generation, or fails
GenNextToken ==
  /\ gen.pc = "loop"
  /\ \E sample \in {"tok", "eog", "fail"}, decodeFail \in BOOLEAN :
       /\ sample = "tok" => gen.total_tokens < gen.limit
       /\ GenDone(EngGenNextToken(EngNow, sample, decodeFail))

\* the same with a model that may go on generating for ever
GenNextTokenUnbounded ==
  /\ gen.pc = "loop"
  /\ \E sample \in {"tok", "eog", "fail"}, decodeFail \in BOOLEAN :
       GenDone(EngGenNextToken(EngNow, sample, decodeFail))

CallbackReturns ==
  /\ gen.pc = "callback"
  /\ \E answer \in BOOLEAN : GenDone(EngCallbackReturns(EngNow, answer))

EngInit ==
  /\ isInitialized = FALSE
  /\ llm_model_config = ""
  /\ llmModel = ""
  /\ llmVocab = ""
  /\ chat_context = NoContexts
  /\ gen = Idle
  /\ engCall = NoCall

\* the generation loop in depth
GenNext ==
  \/ InitializeEngine
  \/ LoadLanguageModel
  \/ GenerateStreamingResponse(MaxGenTokens, Utf8Scripts, PromptSizes)
  \/ GenNextToken
  \/ CallbackReturns

\* the generation loop with nothing but the window to end it
LoopNext ==
  \/ InitializeEngine
  \/ LoadLanguageModel
  \/ GenerateStreamingResponse(MaxGenTokens, AsciiScripts, PromptSizes)
  \/ GenNextTokenUnbounded
  \/ CallbackReturns

\* the whole interface, with short generations
EngNext ==
  \/ InitializeEngine
  \/ LoadLanguageModel
  \/ LoadChatMessagesIntoContext
  \/ UnloadChatContext
  \/ GenerateStreamingResponse(MaxChatTokens, AsciiScripts, {2})
  \/ GenerateStreamingChatResponse(MaxChatTokens, AsciiScripts)
  \/ GenNextToken
  \/ CallbackReturns

(***************************************************************************)
(* ODAIRagEngine, and the ODAISdk calls in front of it, as operators on a  *)
(* record S of the three objects: D (ODAISqliteDb), E (ODAILlamaEngine),   *)
(* cache (m_modelPathCache), with the call's progress and result           *)
(***************************************************************************)
NoPaths == [m \in {} |-> ""]

\* calculate_file_checksum: "" for a file that cannot be opened
FileChecksum(path) ==
  IF path \in {"pA", "pA2"} THEN "ckA"
  ELSE IF path = "pB" THEN "ckB"
  ELSE ""

RagNow ==
  [sdk |-> m_sdkInitialized, orch |-> m_ragEngine, D |-> DbNow, E |-> EngNow,
   cache |-> m_modelPathCache, buffer_ctx |-> buffer_ctx,
   ret |-> TRUE, n |-> 0]

PutPath(cache, name, path) ==
  [m \in DOMAIN cache \cup {name} |-> IF m = name THEN path ELSE cache[m]]

\* resolve_model_path: the cache first, then storage, which fills the cache
RagResolveModelPath(S, name) ==
  IF name \in DOMAIN S.cache
  THEN [S |-> S, ok |-> TRUE, path |-> S.cache[name]]
  ELSE LET g == DbGetModel(S.D, name)
       IN IF g.ret
          THEN [S |-> [S EXCEPT !.cache = PutPath(@, name, g.path)],
                ok |-> TRUE, path |-> g.path]
          ELSE [S |-> S, ok |-> FALSE, path |-> ""]

\* the cache gets the path whatever storage has answered
RagRegisterModelCacheFirst(S, name, path, type, dbFail) ==
  LET checksum == FileChecksum(path)
      D1 == DbRegisterModel(S.D, name, path, type, checksum, dbFail)
  IN IF checksum = "" THEN [S EXCEPT !.ret = FALSE]
     ELSE [S EXCEPT !.D = D1, !.cache = PutPath(@, name, path), !.ret = D1.ret]

\* register_model
RagRegisterModel(S, name, path, type, dbFail) ==
  LET checksum == FileChecksum(path)
      D1 == DbRegisterModel(S.D, name, path, type, checksum, dbFail)
  IN IF checksum = "" THEN [S EXCEPT !.ret = FALSE]
     ELSE IF D1.ret
          THEN [S EXCEPT !.D = D1, !.cache = PutPath(@, name, path), !.ret = TRUE]
          ELSE [S EXCEPT !.D = D1, !.ret = FALSE]

\* the path is updated without comparing the checksums
RagUpdateModelPathUnchecked(S, name, path, dbFail) ==
  LET checksum == FileChecksum(path)
      old == DbGetModel(S.D, name)
      D1 == DbUpdateModelPath(S.D, name, path, dbFail)
  IN IF checksum = "" THEN [S EXCEPT !.ret = FALSE]
     ELSE IF ~old.ret THEN [S EXCEPT !.ret = FALSE]
     ELSE IF D1.ret
          THEN [S EXCEPT !.D = D1, !.cache = PutPath(@, name, path), !.ret = TRUE]
          ELSE [S EXCEPT !.D = D1, !.ret = FALSE]

\* update_model_path
RagUpdateModelPath(S, name, path, dbFail) ==
  LET checksum == FileChecksum(path)
      old == DbGetModel(S.D, name)
      D1 == DbUpdateModelPath(S.D, name, path, dbFail)
  IN IF checksum = "" THEN [S EXCEPT !.ret = FALSE]
     ELSE IF ~old.ret THEN [S EXCEPT !.ret = FALSE]
     ELSE IF checksum # old.checksum THEN [S EXCEPT !.ret = FALSE]
     ELSE IF D1.ret
          THEN [S EXCEPT !.D = D1, !.cache = PutPath(@, name, path), !.ret = TRUE]
          ELSE [S EXCEPT !.D = D1, !.ret = FALSE]

\* the empty user turn that completes a history of the system prompt alone
\* is stored with the history
RagEnsureStoresSyntheticTurn(S, chat, cfg, outcome, fail) ==
  LET r == RagResolveModelPath(S, cfg.modelName)
      E1 == EngLoadLanguageModel(r.S.E, r.path, outcome)
      h == DbGetChatHistory(r.S.D, chat)
      E2 == EngLoadChatMessagesIntoContext(
              E1, chat, h.messages, fail = "context", fail = "sampler",
              fail = "template", fail = "decode")
      D2 == IF Len(h.messages) = 1 /\ h.messages[1].role = "system"
            THEN DbInsertChatMessages(r.S.D, chat,
                                      <<[role |-> "user", content |-> <<>>]>>,
                                      [begin |-> FALSE, commit |-> FALSE, at |-> 0])
            ELSE r.S.D
  IN IF ~r.ok THEN [S EXCEPT !.ret = FALSE]
     ELSE IF ~E1.ret THEN [r.S EXCEPT !.E = E1, !.ret = FALSE]
     ELSE IF IsChatContextLoaded(E1, chat) THEN [r.S EXCEPT !.E = E1, !.ret = TRUE]
     ELSE IF ~h.ret THEN [r.S EXCEPT !.E = E1, !.ret = FALSE]
     ELSE [r.S EXCEPT !.E = E2, !.D = D2, !.ret = E2.ret]

\* ensure_chat_session_loaded.  outcome: of the model load; fail: what the
\* inference runtime refuses while the history is loaded
RagEnsureChatSessionLoaded(S, chat, cfg, outcome, fail) ==
  LET r == RagResolveModelPath(S, cfg.modelName)
      E1 == EngLoadLanguageModel(r.S.E, r.path, outcome)
      h == DbGetChatHistory(r.S.D, chat)
      E2 == EngLoadChatMessagesIntoContext(
              E1, chat, h.messages, fail = "context", fail = "sampler",
              fail = "template", fail = "decode")
  IN IF ~r.ok THEN [S EXCEPT !.ret = FALSE]
     ELSE IF ~E1.ret THEN [r.S EXCEPT !.E = E1, !.ret = FALSE]
     ELSE IF IsChatContextLoaded(E1, chat) THEN [r.S EXCEPT !.E = E1, !.ret = TRUE]
     ELSE IF ~h.ret THEN [r.S EXCEPT !.E = E1, !.ret = FALSE]
     ELSE [r.S EXCEPT !.E = E2, !.ret = E2.ret]

\* ODAISdk::load_chat and load_chat_session
RagLoadChatSession(S, chat, outcome, fail) ==
  LET c == DbGetChatConfig(S.D, chat)
  IN IF ~S.sdk \/ chat = "" THEN [S EXCEPT !.ret = FALSE]
     ELSE IF ~c.ret THEN [S EXCEPT !.ret = FALSE]
     ELSE RagEnsureChatSessionLoaded(S, chat, c.chat_config, outcome, fail)

\* ODAISdk::unload_chat and unload_chat_session
RagUnloadChatSession(S, chat) ==
  LET E1 == EngUnloadChatContext(S.E, chat)
  IN IF ~S.sdk \/ chat = "" THEN [S EXCEPT !.ret = FALSE]
     ELSE [S EXCEPT !.E = E1, !.ret = E1.ret]

\* create_chat that does not ask whether the SDK is initialized
SdkCreateChatUnguarded(S, chatIdIn, fresh, cfg, f) ==
  LET chatId == IF chatIdIn = "" THEN fresh ELSE chatIdIn
      D1 == DbCreateChat(S.D, chatId, cfg, f)
  IN IF ~ChatConfigIsSane(cfg) THEN [S EXCEPT !.ret = FALSE]
     ELSE IF chatIdIn # "" /\ DbChatIdExists(S.D, chatId)
          THEN [S EXCEPT !.ret = FALSE]
          ELSE [S EXCEPT !.D = D1, !.ret = D1.ret]

\* ODAISdk::create_chat.  fresh: what generate_chat_id yields
SdkCreateChat(S, chatIdIn, fresh, cfg, f) ==
  LET chatId == IF chatIdIn = "" THEN fresh ELSE chatIdIn
      D1 == DbCreateChat(S.D, chatId, cfg, f)
  IN IF ~S.sdk THEN [S EXCEPT !.ret = FALSE]
     ELSE IF ~ChatConfigIsSane(cfg) THEN [S EXCEPT !.ret = FALSE]
     ELSE IF chatIdIn # "" /\ DbChatIdExists(S.D, chatId)
          THEN [S EXCEPT !.ret = FALSE]
          ELSE [S EXCEPT !.D = D1, !.ret = D1.ret]

\* what the internal callback of generate_streaming_chat_response works on
NoBuffer == [chat |-> "", prompt |-> <<>>, buffered_response |-> <<>>]

\* generate_streaming_chat_response, lines 193-234: the exchange is saved
\* once the engine has returned its count
RagSaveExchange(S, f) ==
  LET total_tokens == S.E.gen.ret
      chat == S.buffer_ctx.chat
      messages_to_save ==
        <<[role |-> "user", content |-> S.buffer_ctx.prompt],
          [role |-> "assistant", content |-> S.buffer_ctx.buffered_response]>>
      D1 == DbBegin(S.D, f.begin)
      D2 == DbInsertChatMessages(D1, chat, messages_to_save, f)
      D3 == DbCommit(D2, f.commit)
  IN IF total_tokens < 0 THEN [S EXCEPT !.n = -1]
     ELSE IF ~D1.ret THEN [S EXCEPT !.D = D1, !.n = -1]
     ELSE IF ~D2.ret THEN [S EXCEPT !.D = DbRollback(D2), !.n = -1]
     ELSE IF ~D3.ret THEN [S EXCEPT !.D = DbRollback(D3), !.n = -1]
     ELSE [S EXCEPT !.D = D3, !.n = total_tokens]

\* a call that returns -1 before the engine is asked to generate
RagRefused(S) == [S EXCEPT !.n = -1, !.ret = FALSE]

\* GeneratorConfig as far as retrieval goes: ragMode, and what ragConfig
\* holds: nothing, an empty semanticSpaceName, the name of a semantic space
\* that is not stored, or the name of one that is
NoRag == [mode |-> "never", config |-> "none"]
RagSettings ==
  {NoRag} \cup [mode : {"always", "dynamic"},
               config : {"none", "empty_name", "unknown_space", "known_space"}]

\* get_semantic_space_config of the semantic space a ragConfig names
DbGetSemanticSpaceConfig(D, config) == D.db /\ config = "known_space"

\* the checks of the retrieval settings (lines 125-153)
RagSettingsRefused(D, rag) ==
  /\ rag.mode # "never"
  /\ \/ rag.config = "none"
     \/ rag.config = "empty_name"
     \/ ~DbGetSemanticSpaceConfig(D, rag.config)

\* the session is made ready before the call is checked
RagGenerateTurnLoadsFirst(S, chat, prompt, hasCallback, rag, outcome, fail, script, limit) ==
  LET c == DbGetChatConfig(S.D, chat)
      S1 == RagEnsureChatSessionLoaded(S, chat, c.chat_config, outcome, fail)
      S2 == [S1 EXCEPT !.buffer_ctx = [chat |-> chat, prompt |-> prompt,
                                       buffered_response |-> <<>>]]
  IN IF ~S.sdk \/ chat = "" \/ prompt = <<>> THEN RagRefused(S)
     ELSE IF ~c.ret THEN RagRefused(S)
     ELSE IF ~hasCallback THEN RagRefused(S1)
     ELSE IF RagSettingsRefused(S.D, rag) THEN RagRefused(S1)
     ELSE IF ~S1.ret THEN RagRefused(S1)
     ELSE [S2 EXCEPT !.E = EngGenerateStreamingChatResponse(
                               S1.E, chat, prompt, TRUE, fail = "template",
                               script, limit, fail = "decode")]

\* ODAISdk and ODAIRagEngine generate_streaming_chat_response up to the call
\* of the engine (lines 109-185).  rag: the retrieval settings of the call
RagGenerateStreamingChatResponse(S, chat, prompt, hasCallback, rag, outcome, fail, script, limit) ==
  LET c == DbGetChatConfig(S.D, chat)
      S1 == RagEnsureChatSessionLoaded(S, chat, c.chat_config, outcome, fail)
      S2 == [S1 EXCEPT !.buffer_ctx = [chat |-> chat, prompt |-> prompt,
                                       buffered_response |-> <<>>]]
  IN IF ~S.sdk \/ chat = "" \/ prompt = <<>> \/ ~hasCallback THEN RagRefused(S)
     ELSE IF ~c.ret THEN RagRefused(S)
     ELSE IF RagSettingsRefused(S.D, rag) THEN RagRefused(S)
     ELSE IF ~S1.ret THEN RagRefused(S1)
     ELSE [S2 EXCEPT !.E = EngGenerateStreamingChatResponse(
                               S1.E, chat, prompt, TRUE, fail = "template",
                               script, limit, fail = "decode")]

\* ODAISdk and ODAIRagEngine generate_streaming_response up to the call of
\* the engine
RagGenerateStreamingResponse(S, name, query, hasCallback, outcome, fail, script, limit) ==
  LET r == RagResolveModelPath(S, name)
      E1 == EngLoadLanguageModel(r.S.E, r.path, outcome)
  IN IF ~S.sdk \/ name = "" \/ query = 0 \/ ~hasCallback THEN RagRefused(S)
     ELSE IF ~r.ok THEN RagRefused(S)
     ELSE IF ~E1.ret THEN RagRefused([r.S EXCEPT !.E = E1])
     ELSE [r.S EXCEPT !.E = EngGenerateStreamingResponse(
                               E1, query, TRUE, fail = "context",
                               fail = "sampler", script, limit, fail = "decode")]

\* the chunk is kept only when the callback of the caller accepts it
RagInternalCallbackKeepsAccepted(S, answer) ==
  LET S1 == IF S.E.gen.op = "generate_streaming_chat_response" /\ answer
            THEN [S EXCEPT !.buffer_ctx.buffered_response = @ \o S.E.gen.chunk]
            ELSE S
  IN [S1 EXCEPT !.E = EngCallbackReturns(S.E, answer)]

\* the internal callback of generate_streaming_chat_response (lines 170-182)
\* keeps the chunk, then asks the callback of the caller
RagInternalCallback(S, answer) ==
  LET S1 == IF S.E.gen.op = "generate_streaming_chat_response"
            THEN [S EXCEPT !.buffer_ctx.buffered_response = @ \o S.E.gen.chunk]
            ELSE S
  IN [S1 EXCEPT !.E = EngCallbackReturns(S.E, answer)]

\* a generation the callback has ended counts as a failure
RagReturnsCancelIsError(S, f) ==
  IF S.E.gen.op = "generate_streaming_chat_response"
  THEN IF S.E.gen.refused THEN [S EXCEPT !.n = -1] ELSE RagSaveExchange(S, f)
  ELSE [S EXCEPT !.n = IF S.E.gen.refused THEN -1 ELSE S.E.gen.ret]

\* the engine has returned its count to the orchestrator, which returns it
\* (one-shot) or saves the exchange first (chat)
RagReturns(S, f) ==
  IF S.E.gen.op = "generate_streaming_chat_response"
  THEN RagSaveExchange(S, f)
  ELSE [S EXCEPT !.n = S.E.gen.ret]

(***************************************************************************)
(* The calls of the application on the SDK as actions                      *)
(***************************************************************************)
NoFault == [begin |-> FALSE, commit |-> FALSE, at |-> 0]

\* op, chat (or model name and path), the bool or the count returned, the prompt and
\* the buffered response of a generate_turn, the tokens its engine call counted,
\* the retrieval settings, whether a callback was passed and whether the
\* query was empty, what failed while the exchange was saved, whether the
\* callback has answered false and the chunks it was handed; of create_chat
\* the id passed in (as path) and whether the config passed is sane
NoRagCall ==
  [op |-> "none", chat |-> "", path |-> "", ret |-> TRUE, n |-> 0,
   prompt |-> <<>>, response |-> <<>>, total |-> 0, rag |-> NoRag, cb |-> TRUE,
   sane |-> TRUE, noQuery |-> FALSE, f |-> NoFault, refused |-> FALSE,
   chunks |-> <<>>]

\* the inputs of a streaming call that are kept with its return
NoInput == [rag |-> NoRag, cb |-> TRUE, noQuery |-> FALSE]

\* the state of the three objects after a call; the histories of the direct
\* ODAIDb and ODAIBackendEngine calls are not kept here
RagFields(S) ==
  /\ m_sdkInitialized' = S.sdk
  /\ m_ragEngine' = S.orch
  /\ m_modelPathCache' = S.cache
  /\ DbFields([S.D EXCEPT !.ret = TRUE, !.ev = {}, !.phys = NoPhys],
              "none", "", <<>>)
  /\ EngFields(S.E)
  /\ engCall' = NoCall

\* a call that returns a bool has returned
RagDone(S, op, chat, path) ==
  /\ RagFields(S)
  /\ gen' = S.E.gen
  /\ buffer_ctx' = S.buffer_ctx
  /\ ragCall' = [NoRagCall EXCEPT !.op = op, !.chat = chat, !.path = path,
                                  !.ret = S.ret]

\* a streaming call has made a step: it goes on, or it has returned its count
RagGenDone(S, op, chat, f, inp) ==
  IF S.E.gen.pc = "loop" \/ S.E.gen.pc = "callback"
  THEN /\ RagFields(S)
       /\ gen' = S.E.gen
       /\ buffer_ctx' = S.buffer_ctx
       /\ ragCall' = [NoRagCall EXCEPT !.op = "running"]
  ELSE LET S1 == IF S.E.gen.pc = "done" THEN RagReturns(S, f) ELSE S
       IN /\ RagFields(S1)
          /\ gen' = Idle
          /\ buffer_ctx' = NoBuffer
          /\ ragCall' = [op |-> op, chat |-> chat, path |-> "",
                         ret |-> S1.n >= 0, n |-> S1.n,
                         prompt |-> S.buffer_ctx.prompt,
                         response |-> S.buffer_ctx.buffered_response,
                         total |-> IF S.E.gen.pc = "done" THEN S.E.gen.ret ELSE -1,
                         rag |-> inp.rag, cb |-> inp.cb, sane |-> TRUE,
                         noQuery |-> inp.noQuery, f |-> f,
                         refused |-> (S.E.gen.pc = "done" /\ S.E.gen.refused),
                         chunks |-> IF S.E.gen.pc = "done" THEN S.E.gen.chunks
                                    ELSE <<>>]

\* create_chat has returned
RagCreateDone(S, chat, chatIdIn, cfg) ==
  /\ RagFields(S)
  /\ gen' = S.E.gen
  /\ buffer_ctx' = S.buffer_ctx
  /\ ragCall' = [NoRagCall EXCEPT !.op = "create_chat", !.chat = chat,
                                  !.path = chatIdIn, !.ret = S.ret,
                                  !.sane = ChatConfigIsSane(cfg)]

\* What goes wrong in the inference runtime during one call, at most one of:
\* the model file does not load, no context, no sampler, no chat template,
\* llama_decode fails; or the caller passes no callback
RuntimeFaults ==
  {"none", "model_fail", "context", "sampler", "template", "decode", "callback"}
LoadOutcome(fault) == IF fault = "model_fail" THEN "model_fail" ELSE "ok"

\* initialize_sdk: the database is opened on its file, the engine and the
\* orchestrator are made anew.  When the database does not open nothing
\* else is made; when the engine does not initialize the database stays open
\* behind an SDK that is not initialized
InitializeSdk ==
  /\ gen.pc = "idle"
  /\ \E outcome \in {"ok", "db_fail", "engine_fail"} :
       LET dbOk == outcome # "db_fail"
           D == [DbDropHandle(DbNow) EXCEPT !.db = dbOk, !.depth = 0]
           E == IF dbOk
                THEN [EngNow EXCEPT !.isInitialized = (outcome = "ok"),
                                    !.llm_model_config = "",
                                    !.llmModel = "", !.llmVocab = "",
                                    !.chat_context = NoContexts]
                ELSE EngNow
       IN RagDone([RagNow EXCEPT !.sdk = (outcome = "ok"), !.D = D, !.E = E,
                                 !.orch = IF outcome = "ok" THEN "bound"
                                          ELSE "unbound",
                                 !.cache = IF outcome = "ok" THEN NoPaths ELSE @,
                                 !.ret = (outcome = "ok")],
                  "initialize_sdk", "", "")

\* initialize_sdk with a config that is not sane: with such a dbConfig it
\* returns before anything is touched; with such a backendConfig it returns
\* once the database has been replaced and opened, and leaves
\* m_sdkInitialized as it finds it
InitializeSdkBadConfig ==
  /\ gen.pc = "idle"
  /\ \E outcome \in {"bad_db_config", "bad_backend_config"} :
       LET D == [DbDropHandle(DbNow) EXCEPT !.db = TRUE, !.depth = 0]
       IN RagDone(IF outcome = "bad_db_config"
                  THEN [RagNow EXCEPT !.ret = FALSE]
                  ELSE [RagNow EXCEPT !.D = D, !.orch = "unbound", !.ret = FALSE],
                  "initialize_sdk", "", outcome)

\* files: the files the application names for each model
RegisterModel(files) ==
  /\ gen.pc = "idle" /\ m_sdkInitialized
  /\ \E name \in ModelNames, path \in FilePaths, dbFail \in BOOLEAN :
       /\ <<name, path>> \in files
       /\ RagDone(RagRegisterModel(RagNow, name, path, "LLM", dbFail),
               "register_model", name, path)

UpdateModelPath ==
  /\ gen.pc = "idle" /\ m_sdkInitialized
  /\ \E name \in ModelNames, path \in FilePaths, dbFail \in BOOLEAN :
       RagDone(RagUpdateModelPath(RagNow, name, path, dbFail),
               "update_model_path", name, path)

\* resolve_model_path, called by the orchestrator on its own behalf
ResolveModelPath ==
  /\ gen.pc = "idle" /\ m_sdkInitialized
  /\ \E name \in ModelNames :
       LET r == RagResolveModelPath(RagNow, name)
       IN RagDone([r.S EXCEPT !.ret = r.ok], "resolve_model_path", name, r.path)

\* ids, faults: the chat ids in use, and what fails in the database
SdkCreateChatCall(ids, faults) ==
  /\ gen.pc = "idle"
  /\ \E chatIdIn \in ids \cup {""}, fresh \in ids, f \in faults,
        cfg \in UNION {SdkChatConfigs(c) : c \in ids} :
       /\ f.at <= 2
       /\ cfg \in SdkChatConfigs(fresh)
       /\ m_transaction_depth < MaxStuck
       /\ IF chatIdIn = "" THEN ~(\E c \in tables.chats : c.chat_id = fresh)
                           ELSE fresh = chatIdIn
       /\ RagCreateDone(SdkCreateChat(RagNow, chatIdIn, fresh, cfg, f), fresh,
                        chatIdIn, cfg)

LoadChat(chats) ==
  /\ gen.pc = "idle"
  /\ \E chat \in chats, fault \in RuntimeFaults \ {"callback"} :
       RagDone(RagLoadChatSession(RagNow, chat, LoadOutcome(fault), fault),
               "load_chat", chat, "")

UnloadChat(chats) ==
  /\ gen.pc = "idle"
  /\ \E chat \in chats :
       RagDone(RagUnloadChatSession(RagNow, chat), "unload_chat", chat, "")

\* generate_turn: the call up to the first iteration of the generation loop
GenerateTurn(chats, prompts, settings, scripts, limit) ==
  /\ gen.pc = "idle"
  /\ \E chat \in chats, prompt \in prompts, rag \in settings,
        fault \in RuntimeFaults, script \in scripts :
       /\ chat \in DOMAIN chat_context => chat_context[chat].turns < MaxTurns
       /\ Cardinality(RowsOf(tables, chat)) + 2 <= 1 + 2 * MaxTurns
       /\ RagGenDone(RagGenerateStreamingChatResponse(
                       RagNow, chat, prompt, fault # "callback", rag,
                       LoadOutcome(fault), fault, script, limit),
                     "generate_streaming_chat_response", chat, NoFault,
                     [rag |-> rag, cb |-> fault # "callback",
                      noQuery |-> (prompt = <<>>)])

\* the one-shot completion
GenerateOneShot(queries) ==
  /\ gen.pc = "idle"
  /\ \E name \in ModelNames, query \in queries,
        fault \in RuntimeFaults \ {"template"}, script \in AsciiScripts :
       RagGenDone(RagGenerateStreamingResponse(
                    RagNow, name, query, fault # "callback", LoadOutcome(fault),
                    fault, script, MaxChatTokens),
                  "generate_streaming_response", "", NoFault,
                  [rag |-> NoRag, cb |-> fault # "callback",
                   noQuery |-> (query = 0)])

\* ODAISdk::get_chat_history
GetChatHistoryCall(chats) ==
  /\ gen.pc = "idle"
  /\ \E chat \in chats :
       RagDone([RagNow EXCEPT !.ret = /\ m_sdkInitialized /\ chat # ""
                                      /\ DbGetChatHistory(DbNow, chat).ret],
               "get_chat_history", chat, "")

\* ODAISdk::create_semantic_space, get_semantic_space_config,
\* list_semantic_spaces, delete_semantic_space: the SDK passes the call on to
\* the database once it is initialized.  ok: what the database answers
SemanticSpaceCall ==
  /\ gen.pc = "idle"
  /\ \E op \in {"create_semantic_space", "get_semantic_space_config",
               "list_semantic_spaces", "delete_semantic_space"},
        ok \in BOOLEAN :
       RagDone([RagNow EXCEPT !.ret = m_sdkInitialized /\ m_db /\ ok], op, "", "")

\* an iteration of the generation loop inside generate_turn or the one-shot
\* completion; f: what fails while the exchange is saved
TurnNextToken ==
  /\ gen.pc = "loop"
  /\ \E sample \in {"tok", "eog", "fail"}, decodeFail \in BOOLEAN, f \in Faults :
       LET S == [RagNow EXCEPT !.E = EngGenNextToken(EngNow, sample, decodeFail)]
       IN /\ f.at <= 2
          /\ sample = "tok" => gen.total_tokens < gen.limit
          /\ (S.E.gen.pc # "done" \/ S.E.gen.ret < 0
                \/ gen.op # "generate_streaming_chat_response") => f = NoFault
          /\ RagGenDone(S, gen.op, gen.chat, f, NoInput)

TurnCallbackReturns ==
  /\ gen.pc = "callback"
  /\ \E answer \in BOOLEAN, f \in Faults :
       LET S == RagInternalCallback(RagNow, answer)
       IN /\ f.at <= 2
          /\ (S.E.gen.pc # "done"
                \/ gen.op # "generate_streaming_chat_response") => f = NoFault
          /\ RagGenDone(S, gen.op, gen.chat, f, NoInput)

\* the context and the sampler the run in flight works on are there, bound
\* to the resident model
RunResourcesHeld ==
  IF gen.chat = "" THEN gen.ctx # NoContext /\ gen.ctx.model = llmModel
  ELSE /\ gen.chat \in DOMAIN chat_context
       /\ chat_context[gen.chat].model = llmModel

\* the loop and the return of the callback while the resources of the run
\* are there
ReentrantNextToken == gen.pc = "loop" /\ RunResourcesHeld /\ TurnNextToken
ReentrantCallbackReturns == gen.pc = "callback" /\ RunResourcesHeld /\ TurnCallbackReturns

\* the callback, which runs inside the loop on the thread of the caller,
\* calls unload_chat
CallbackUnloadsChat ==
  /\ gen.pc = "callback"
  /\ \E chat \in ChatIds :
       RagDone(RagUnloadChatSession(RagNow, chat), "unload_chat", chat, "")

\* the callback calls generate_streaming_response for a one-shot completion
\* that returns -1 before its loop: the model does not load, or no context,
\* no sampler, or the prompt is not decoded
CallbackOneShot ==
  /\ gen.pc = "callback"
  /\ \E name \in ModelNames, fault \in {"model_fail", "context", "sampler", "decode"} :
       LET S == RagGenerateStreamingResponse(
                  RagNow, name, 2, TRUE, LoadOutcome(fault), fault, <<TokA>>, 0)
       IN RagDone([S EXCEPT !.E.gen = gen, !.ret = FALSE],
                  "generate_streaming_response", "", "")

\* the loop goes on with references to a context and a sampler that have
\* been released: the process crashes, or the call returns -1 or the count
\* it has
DanglingRunEnds ==
  /\ gen.pc \in {"loop", "callback"}
  /\ ~RunResourcesHeld
  /\ \E outcome \in {"crash", "fails", "returns"} :
       LET n == IF outcome = "returns" THEN gen.total_tokens ELSE -1
       IN /\ RagFields(RagNow)
          /\ gen' = IF outcome = "crash" THEN [pc |-> "crashed"] ELSE Idle
          /\ buffer_ctx' = NoBuffer
          /\ ragCall' = [NoRagCall EXCEPT !.op = gen.op, !.chat = gen.chat,
                                          !.ret = (n >= 0), !.n = n]

\* load_chat where the orchestrator's m_db is the database the SDK holds, or
\* where the call returns at the test of m_sdkInitialized
BoundLoadChat ==
  /\ m_sdkInitialized => m_ragEngine = "bound"
  /\ LoadChat({"c1"})

\* load_chat passes the test of m_sdkInitialized and the orchestrator reads
\* the chat through an m_db that has been destroyed: the process crashes, the
\* call fails, or it goes on with what the database file holds
StaleLoadChat ==
  /\ gen.pc = "idle"
  /\ m_sdkInitialized /\ m_ragEngine = "unbound"
  /\ \E outcome \in {"crash", "fails", "runs"}, fault \in {"none", "context"} :
       LET S == IF outcome = "runs"
                THEN RagLoadChatSession(RagNow, "c1", LoadOutcome(fault), fault)
                ELSE [RagNow EXCEPT !.ret = FALSE]
       IN RagDone(IF outcome = "crash"
                  THEN [S EXCEPT !.E.gen = [pc |-> "crashed"]] ELSE S,
                  "load_chat", "c1", "")

RagInit ==
  /\ m_sdkInitialized = FALSE
  /\ m_ragEngine = "unbound"
  /\ m_modelPathCache = NoPaths
  /\ buffer_ctx = NoBuffer
  /\ ragCall = NoRagCall

Init == DbInit /\ EngInit /\ RagInit

\* chat sessions: every model is registered at its own file
Next ==
  \/ InitializeSdk
  \/ RegisterModel(HomeFiles)
  \/ SdkCreateChatCall(ChatIds, {NoFault})
  \/ LoadChat(ChatIds)
  \/ UnloadChat(ChatIds)
  \/ GenerateTurn(ChatIds, {TextQ}, {NoRag}, AsciiScripts, MaxChatTokens)
  \/ GenerateOneShot({2})
  \/ TurnNextToken
  \/ TurnCallbackReturns

\* initialize_sdk called again and again, between calls on chat sessions
InitNext ==
  \/ InitializeSdk
  \/ InitializeSdkBadConfig
  \/ RegisterModel(HomeFiles)
  \/ SdkCreateChatCall({"c1"}, {NoFault})
  \/ BoundLoadChat
  \/ StaleLoadChat
  \/ UnloadChat({"c1"})

SpecInit == Init /\ [][InitNext]_vars

\* the model registry
RegistryNext ==
  \/ InitializeSdk
  \/ RegisterModel(ModelNames \X FilePaths)
  \/ UpdateModelPath
  \/ ResolveModelPath
  \/ SdkCreateChatCall({"c1"}, Faults)

\* generate_turn under every retrieval setting, for a chat that is stored
\* and for one that is not
RetrievalNext ==
  \/ InitializeSdk
  \/ RegisterModel(HomeFiles)
  \/ SdkCreateChatCall({"c1"}, {NoFault})
  \/ LoadChat(ChatIds)
  \/ GenerateTurn(ChatIds, {TextQ}, RagSettings, AsciiScripts, MaxChatTokens)
  \/ TurnNextToken
  \/ TurnCallbackReturns

\* the calls of the SDK before and after it is initialized, with ids and
\* queries that are empty and callbacks that are null
GuardNext ==
  \/ InitializeSdk
  \/ RegisterModel(HomeFiles)
  \/ SdkCreateChatCall({"c1"}, {NoFault})
  \/ LoadChat({"", "c1"})
  \/ UnloadChat({"", "c1"})
  \/ GetChatHistoryCall({"", "c1"})
  \/ SemanticSpaceCall
  \/ GenerateTurn({"", "c1"}, {<<>>, TextQ}, {NoRag}, AsciiScripts, MaxChatTokens)
  \/ GenerateOneShot({0, 2})
  \/ TurnNextToken
  \/ TurnCallbackReturns

\* the turns of one chat, long enough for the callback to be asked before
\* the generation ends, of multi-byte characters too
TurnNext ==
  \/ InitializeSdk
  \/ RegisterModel(HomeFiles)
  \/ SdkCreateChatCall({"c1"}, {NoFault})
  \/ GenerateTurn({"c1"}, {TextQ}, {NoRag}, Utf8Scripts, MaxTurnTokens)
  \/ TurnNextToken
  \/ TurnCallbackReturns

\* the turns of one chat with a callback that calls back into the SDK
ReentrantNext ==
  \/ InitializeSdk
  \/ RegisterModel(HomeFiles)
  \/ SdkCreateChatCall({"c1"}, {NoFault})
  \/ GenerateTurn({"c1"}, {TextQ}, {NoRag}, AsciiScripts, MaxTurnTokens)
  \/ ReentrantNextToken
  \/ ReentrantCallbackReturns
  \/ CallbackUnloadsChat
  \/ CallbackOneShot
  \/ DanglingRunEnds

SpecReentrant == Init /\ [][ReentrantNext]_vars
SpecGuards == Init /\ [][GuardNext]_vars
SpecTurn == Init /\ [][TurnNext]_vars
SpecRegistry == Init /\ [][RegistryNext]_vars
SpecRetrieval == Init /\ [][RetrievalNext]_vars

Spec == Init /\ [][Next]_vars
SpecGen == Init /\ [][GenNext]_vars
\* an iteration of the loop returns, and so does the callback
SpecLoop ==
  /\ Init /\ [][LoopNext]_vars
  /\ WF_vars(GenNextTokenUnbounded) /\ WF_vars(CallbackReturns)
SpecEngine == Init /\ [][EngNext]_vars
SpecDb == Init /\ [][DbNext]_vars

(***************************************************************************)
(* Claims about the chat store (checked under SpecDb)                      *)
(***************************************************************************)

\* C3: in a balanced nesting of begin_transaction / commit_transaction that
\* starts at depth 0, the physical transaction is opened exactly once, by the
\* begin that takes the depth from 0 to 1, and the physical COMMIT is issued
\* exactly once, by the commit that takes the depth from 1 to 0; an inner
\* begin or commit changes the depth counter and nothing else.
C3_NestedOpenAndCommitOnce ==
  /\ [](phys.opens <= 1 /\ phys.commits <= 1)
  /\ [][ /\ dbCall'.op = "begin_transaction" =>
              /\ ("BEGIN" \in dbCall'.ev) <=>
                    (m_transaction_depth = 0 /\ m_transaction_depth' = 1)
              /\ m_transaction_depth > 0 =>
                    /\ m_transaction_depth' = m_transaction_depth + 1
                    /\ dbCall'.ev = {}
                    /\ UNCHANGED <<m_transaction, tables, durable>>
         /\ dbCall'.op = "commit_transaction" =>
              /\ ("COMMIT" \in dbCall'.ev) <=>
                    (m_transaction_depth = 1 /\ m_transaction_depth' = 0)
              /\ m_transaction_depth > 1 =>
                    /\ m_transaction_depth' = m_transaction_depth - 1
                    /\ dbCall'.ev = {}
                    /\ UNCHANGED <<m_transaction, tables, durable>>
              /\ m_transaction_depth = 1 =>
                    phys'.opens = 1 /\ phys'.commits = 1
       ]_vars

\* C3 witness: begin; begin; commit; commit has run and its writes are committed
C3_Witness ==
  /\ dbCall.op = "commit_transaction" /\ dbCall.ret
  /\ dbCall.ev = {"COMMIT"}
  /\ phys.deepest = 2 /\ phys.opens = 1 /\ phys.commits = 1
  /\ m_transaction_depth = 0 /\ ~m_transaction
  /\ durable = tables /\ durable.chat_messages # {}

\* C4: rollback_transaction leaves depth 0 and no transaction,
\* discards every uncommitted write, and at depth 0 it changes nothing.
C4_RollbackTotal ==
  [][ (dbCall'.op = "rollback_transaction" /\ m_db) =>
        /\ m_transaction_depth' = 0 /\ ~m_transaction'
        /\ tables' = durable /\ durable' = durable
        /\ m_transaction_depth = 0 => tables' = tables
    ]_vars

\* C5: a transaction handle is held iff the depth is positive,
\* and the depth is never negative.
C5_HandleIffDepthPositive ==
  /\ m_transaction_depth >= 0
  /\ m_transaction <=> (m_transaction_depth > 0)

\* C5 witness: the physical COMMIT of the outermost commit_transaction has
\* failed: the depth is 0 and the handle is still held
C5_Witness ==
  /\ dbCall.op = "commit_transaction" /\ ~dbCall.ret
  /\ m_transaction_depth = 0 /\ m_transaction

\* C6: insert_chat_messages is all or nothing: when it fails the
\* chat's history holds no message of the batch, when it succeeds the history
\* is the former history followed by the batch.
C6_InsertAllOrNothing ==
  [][ dbCall'.op = "insert_chat_messages" =>
        IF dbCall'.ret
        THEN GetChatHistory(tables', dbCall'.chat) =
               GetChatHistory(tables, dbCall'.chat) \o batch'
        ELSE RowsOf(tables', dbCall'.chat) \subseteq RowsOf(tables, dbCall'.chat)
    ]_vars

(***************************************************************************)
(* Claims about the language-model engine (SpecEngine) and its generation  *)
(* loop (SpecGen)                                                          *)
(***************************************************************************)

\* C1: load_language_model with a path other than the one currently loaded
\* leaves the chat-context cache empty, whether the load succeeds or fails:
\* is_chat_context_loaded is false for every chat that was cached.
C1_LoadOtherPathClearsCache ==
  [][ ( /\ engCall'.op = "load_language_model"
        /\ engCall'.chat # llm_model_config \/ engCall'.chat # llmModel )
      => /\ chat_context' = NoContexts
         /\ \A c \in DOMAIN chat_context :
              ~IsChatContextLoaded([chat_context |-> chat_context'], c)
    ]_vars

\* C1 witness: a load of another path has failed while chats were cached
C1_Witness ==
  /\ engCall.op = "load_language_model" /\ ~engCall.ret
  /\ engCall.had = ChatIds
  /\ engCall.chat # llm_model_config
  /\ chat_context = NoContexts

\* C2: every cached context was built from the model that is resident now:
\* a non-empty cache implies a resident model, and no entry survives a change
\* of the resident model.
C2_CacheBuiltFromLoadedModel ==
  /\ [](\A c \in DOMAIN chat_context :
          llmModel # "" /\ chat_context[c].model = llmModel)
  /\ [][llmModel' # llmModel => chat_context' = NoContexts]_vars

\* C2 witness: the resident model has been replaced while chats were cached
C2_Witness ==
  /\ engCall.op = "load_language_model" /\ engCall.ret
  /\ engCall.had # {}
  /\ llmModel = engCall.chat /\ llm_model_config = engCall.chat
  /\ chat_context = NoContexts

Batches20(t) == (t + FlushEvery - 1) \div FlushEvery

\* the callback count and the tokens each chunk covers, for T tokens
CallbacksAsClaimed(run) ==
  /\ run.callbacks = Batches20(run.produced)
  /\ Len(run.chunkTokens) = run.callbacks
  /\ \A i \in 1..Len(run.chunkTokens) :
       run.chunkTokens[i] =
         IF i * FlushEvery <= run.produced THEN FlushEvery
         ELSE run.produced % FlushEvery

\* C10: when the sampler produces T tokens and then ends the
\* generation, and the callback always answers true, the callback has been
\* invoked ceil(T/20) times, a chunk per 20 tokens and one for the rest, and
\* the call returns T.
C10_CallbackPerBatch ==
  (engCall.run.pc = "done" /\ engCall.run.sawEog /\ ~engCall.run.refused) =>
    /\ engCall.n = engCall.run.produced
    /\ CallbacksAsClaimed(engCall.run)

\* The same for the calls in which the end-of-generation token itself could
\* be fed to the decode context
GenCallbackPerBatchWhenEogFed ==
  (engCall.run.pc = "done" /\ engCall.run.fedEog /\ ~engCall.run.refused) =>
    /\ engCall.n = engCall.run.produced
    /\ CallbacksAsClaimed(engCall.run)

\* C10 witness: the prompt has left room for 45 tokens, 45 tokens have been
\* generated and the model has ended the generation; the window is full, the
\* end-of-generation token is not accepted by the context, the call has
\* returned -1 and the chunk of the last 5 tokens has not been delivered
C10_Witness ==
  /\ engCall.op = "generate_streaming_response"
  /\ engCall.run.pc = "done" /\ engCall.run.sawEog /\ ~engCall.run.fedEog
  /\ engCall.run.ctx.n_past = N_CTX
  /\ engCall.run.produced = MaxGenTokens
  /\ engCall.run.callbacks = 2 /\ engCall.n = -1

\* 45 tokens, then the end: three chunks of 20, 20 and 5 tokens
GenFortyFiveTokensReturned ==
  /\ engCall.run.pc = "done" /\ engCall.run.fedEog /\ ~engCall.run.refused
  /\ engCall.n = 45 /\ engCall.run.chunkTokens = <<20, 20, 5>>

(***************************************************************************)
(* Claims about the orchestrator (Spec) and the model registry             *)
(* (SpecRegistry)                                                          *)
(***************************************************************************)

\* the two messages of the turn that has just returned
TurnExchange(call) ==
  <<[role |-> "user", content |-> call.prompt],
    [role |-> "assistant", content |-> call.response]>>

\* what the return of a generate_turn has done to the history of its chat:
\* a count means the exchange is committed at the end of the history, -1
\* means no message has been added
TurnPersistedIffReturned ==
  LET chat == ragCall'.chat
  IN IF ragCall'.n >= 0
     THEN /\ GetChatHistory(durable', chat) =
               GetChatHistory(durable, chat) \o TurnExchange(ragCall')
          /\ GetChatHistory(tables', chat) =
               GetChatHistory(tables, chat) \o TurnExchange(ragCall')
     ELSE /\ RowsOf(tables', chat) \subseteq RowsOf(tables, chat)
          /\ RowsOf(durable', chat) \subseteq RowsOf(durable, chat)

\* C7: generate_turn returns a count if and only if the user
\* message and the assistant message are both committed to the history of the
\* chat, as its last two messages in that order; when it returns -1 neither
\* of them is in the history.
C7_TurnPersistedAtomically ==
  [][ragCall'.op = "generate_streaming_chat_response" => TurnPersistedIffReturned]_vars

\* The same for the turns that end while no transaction is open
TurnPersistedWhenBalanced ==
  [][ ( /\ ragCall'.op = "generate_streaming_chat_response"
        /\ m_transaction_depth = 0 /\ ~m_transaction )
      => TurnPersistedIffReturned ]_vars

\* C7 witness: create_chat on an id that is taken has left its transaction
\* open; the turn made after it has returned its count, and its exchange is
\* in no committed history
C7_Witness ==
  /\ ragCall.op = "generate_streaming_chat_response" /\ ragCall.n >= 0
  /\ m_transaction_depth = 1 /\ m_transaction
  /\ GetChatHistory(tables, ragCall.chat) =
       <<[role |-> "system", content |-> TextSys]>> \o TurnExchange(ragCall)
  /\ GetChatHistory(durable, ragCall.chat) =
       <<[role |-> "system", content |-> TextSys]>>

\* a turn has returned its count and its exchange is committed
TurnCommitted ==
  /\ ragCall.op = "generate_streaming_chat_response" /\ ragCall.n = 1
  /\ m_transaction_depth = 0 /\ ~m_transaction
  /\ GetChatHistory(durable, ragCall.chat) =
       <<[role |-> "system", content |-> TextSys]>> \o TurnExchange(ragCall)

\* storage and cache entry of a model
StoredModel(db, t, name) == DbGetModel([db |-> db, tables |-> t], name)
CachedPath(cache, name) == IF name \in DOMAIN cache THEN cache[name] ELSE ""

\* C8: update_model_path fails and changes nothing in the registry when the
\* file at the new path cannot be read, the name is not registered, or the
\* checksum of the file differs from the registered one: the stored record
\* and the cached path of the name are what they were, and so is what
\* resolve_model_path yields.
C8_UpdateModelPathRejected ==
  [][ ( /\ ragCall'.op = "update_model_path"
        /\ \/ FileChecksum(ragCall'.path) = ""
           \/ ~StoredModel(m_db, tables, ragCall'.chat).ret
           \/ FileChecksum(ragCall'.path) #
                StoredModel(m_db, tables, ragCall'.chat).checksum )
      => /\ ~ragCall'.ret
         /\ tables'.models = tables.models /\ durable'.models = durable.models
         /\ m_modelPathCache' = m_modelPathCache
         /\ StoredModel(m_db', tables', ragCall'.chat) =
              StoredModel(m_db, tables, ragCall'.chat)
         /\ LET before == RagResolveModelPath(RagNow, ragCall'.chat)
                after == RagResolveModelPath(
                           [D |-> [db |-> m_db', tables |-> tables'],
                            cache |-> m_modelPathCache'], ragCall'.chat)
            IN after.ok = before.ok /\ after.path = before.path
    ]_vars

\* C8 witness: m1 is registered at pA, and its move to pB, a file of another
\* content, has been refused
C8_Witness ==
  /\ ragCall.op = "update_model_path" /\ ~ragCall.ret
  /\ ragCall.chat = "m1" /\ ragCall.path = "pB"
  /\ CachedPath(m_modelPathCache, "m1") = "pA"
  /\ StoredModel(m_db, durable, "m1").path = "pA"
  /\ StoredModel(m_db, tables, "m1").path = "pA"

(***************************************************************************)
(* Claims about the text streamed by the generation loop (SpecGen)         *)
(***************************************************************************)
RECURSIVE Concat(_)
Concat(chunks) ==
  IF chunks = <<>> THEN <<>> ELSE Head(chunks) \o Concat(Tail(chunks))

RECURSIVE SumOf(_)
SumOf(ns) == IF ns = <<>> THEN 0 ELSE Head(ns) + SumOf(Tail(ns))

\* s is a sequence of whole UTF-8 characters
RECURSIVE Utf8Complete(_)
Utf8Complete(s) ==
  IF s = <<>> THEN TRUE
  ELSE LET c == s[1]
           n == IF c < 128 THEN 1
                ELSE IF c >= 192 /\ c < 224 THEN 2
                ELSE IF c >= 224 /\ c < 240 THEN 3
                ELSE IF c >= 240 /\ c < 248 THEN 4
                ELSE 0
       IN /\ n > 0 /\ Len(s) >= n
          /\ \A k \in 2..n : s[k] >= 128 /\ s[k] < 192
          /\ Utf8Complete(SubSeq(s, n + 1, Len(s)))

\* the streaming call that is running, or the one that has just returned
TheRun == IF gen.pc # "idle" THEN gen ELSE engCall.run

\* C11: when the generation ends at end-of-generation and the callback has
\* never answered false, the chunks handed to the callback, concatenated in
\* order, are the detokenized text of all the generated tokens.
C11_ChunksConcatenateToText ==
  (engCall.run.pc = "done" /\ engCall.run.sawEog /\ ~engCall.run.refused) =>
    Concat(engCall.run.chunks) = engCall.run.text

\* C11 witness: 45 tokens and the end of the generation with the window
\* full: two chunks of 20 bytes have been delivered, the last 5 bytes have not
C11_Witness ==
  /\ engCall.run.pc = "done" /\ engCall.run.sawEog /\ ~engCall.run.refused
  /\ engCall.run.script = <<TokA>>
  /\ Len(engCall.run.text) = MaxGenTokens
  /\ Len(engCall.run.chunks) = 2
  /\ Len(Concat(engCall.run.chunks)) = 2 * FlushEvery

\* No byte is dropped, duplicated or reordered on the way to the callback:
\* the chunks, the bytes held back and the tokens not flushed yet make up the
\* text generated so far
GenBytesConserved ==
  TheRun.pc # "idle" =>
    Concat(TheRun.chunks) \o TheRun.output_buffer
      \o Detokenize(TheRun.buffered_tokens) = TheRun.text

\* The whole text is delivered when the context accepts the
\* end-of-generation token and the text ends with a whole character
GenTextDeliveredWhenEogFed ==
  ( /\ engCall.run.pc = "done" /\ engCall.run.fedEog /\ ~engCall.run.refused
    /\ Utf8Complete(engCall.run.text) ) =>
    Concat(engCall.run.chunks) = engCall.run.text

\* C12: every chunk handed to the callback is a sequence of whole UTF-8
\* characters, and the bytes a flush holds back open the next flush: the
\* chunks up to a flush and the bytes it holds back are the text of the
\* tokens flushed so far.
C12_ChunksAreWholeCharacters ==
  TheRun.pc # "idle" =>
    \A i \in 1..Len(TheRun.chunks) :
      /\ Utf8Complete(TheRun.chunks[i])
      /\ ~Utf8Complete(TheRun.tails[i]) \/ TheRun.tails[i] = <<>>
      /\ Concat(SubSeq(TheRun.chunks, 1, i)) \o TheRun.tails[i] =
           SubSeq(TheRun.text, 1, SumOf(SubSeq(TheRun.chunkTokens, 1, i)))

\* C12 witness: a flush has held back the first two of the four bytes of a
\* character and the next chunk begins with that character
C12_Witness ==
  /\ engCall.run.pc = "done" /\ ~engCall.run.refused
  /\ \E i \in 1..(Len(engCall.run.chunks) - 1) :
       /\ engCall.run.tails[i] = TokSm1 \o TokSm2
       /\ Len(engCall.run.chunks[i + 1]) >= 4
       /\ SubSeq(engCall.run.chunks[i + 1], 1, 4) =
            TokSm1 \o TokSm2 \o TokSm3 \o TokSm4

\* the run has entered its loop: a token has been asked of the sampler
OnceGenerating(run) == run.pc # "idle" /\ (run.sinceCb > 0 \/ run.callbacks > 0)

\* C13: a run that is generating ends FAILED (-1), DONE or CANCELLED (the
\* count).  When the sampler yields the end-of-generation token the run ends
\* with the count of the tokens generated before it and that token has not
\* been fed into the decode context; the run ends with -1 only when sampling
\* fails or a token other than end-of-generation cannot be fed back.
C13_EogEndsTheRunUnfed ==
  (OnceGenerating(engCall.run) /\ engCall.run.pc = "done") =>
    /\ engCall.n >= -1
    /\ engCall.run.sawEog =>
         /\ engCall.n = engCall.run.produced
         /\ ~engCall.run.fedEog
    /\ engCall.n = -1 => ~engCall.run.sawEog

\* C13 witness: a prompt of 2 pieces with its begin-of-sequence token, one
\* token generated, then end-of-generation: the call has returned 1 and the
\* context holds 5 tokens, the end-of-generation token among them
C13_Witness ==
  /\ engCall.op = "generate_streaming_response"
  /\ engCall.run.pc = "done" /\ engCall.run.sawEog /\ engCall.run.fedEog
  /\ engCall.n = 1 /\ engCall.run.produced = 1
  /\ engCall.run.ctx.n_past = 5

\* The end-of-generation token sampled and refused by the context: -1
GenFailedAtEog ==
  /\ engCall.run.pc = "done" /\ engCall.run.sawEog /\ ~engCall.run.fedEog
  /\ engCall.n = -1

\* Apart from the feeding of the end-of-generation token the ends are as
\* claimed: the count when that token is accepted or the callback cancels,
\* -1 when the sampler fails or the sampled token is not accepted
GenEndsInOneOfThree ==
  (OnceGenerating(engCall.run) /\ engCall.run.pc = "done") =>
    \/ engCall.n = -1 /\ ~engCall.run.fedEog /\ ~engCall.run.refused
    \/ engCall.n = engCall.run.produced /\ engCall.run.fedEog
    \/ engCall.n = engCall.run.produced /\ engCall.run.refused

(***************************************************************************)
(* Claims about the chat sessions (Spec, SpecEngine)                       *)
(***************************************************************************)

\* the step is a load_chat that has reached ensure_chat_session_loaded
EnsureCalled ==
  /\ ragCall'.op = "load_chat"
  /\ m_sdkInitialized /\ DbGetChatConfig(DbNow, ragCall'.chat).ret

\* C14: ensure_chat_session_loaded returns true only if the chat has a
\* cached context afterwards, and when it returns false (the model path is
\* not resolved, the model does not load, the history is not fetched, the
\* prompt is empty or does not enter the decode context) the chat has none.
C14_EnsureLoadedOrNoEntry ==
  [][ EnsureCalled =>
        (ragCall'.ret <=>
           IsChatContextLoaded([chat_context |-> chat_context'], ragCall'.chat))
    ]_vars

\* C14 witness: the model of the chat is resident, the history could not be
\* loaded into a context, load_chat has failed and the chat is not cached
C14_Witness ==
  /\ ragCall.op = "load_chat" /\ ~ragCall.ret
  /\ DbGetChatConfig(DbNow, ragCall.chat).ret
  /\ llmModel = "pA" /\ llm_model_config = "pA"
  /\ ragCall.chat \notin DOMAIN chat_context

\* load_chat_messages_into_context by itself: a failure leaves no entry, the
\* history longer than the window included
EngLoadFailureLeavesNoEntry ==
  [][ engCall'.op = "load_chat_messages_into_context" =>
        (engCall'.ret <=> engCall'.chat \in DOMAIN chat_context') ]_vars

\* C15: unload_chat_context reports success whether or not the chat has an
\* entry; afterwards the chat has none and the other entries are what they
\* were, so that a second unload reports success again and changes nothing.
C15_UnloadIdempotent ==
  [][ engCall'.op = "unload_chat_context" =>
        /\ engCall'.ret
        /\ engCall'.chat \notin DOMAIN chat_context'
        /\ \A c \in DOMAIN chat_context \ {engCall'.chat} :
             c \in DOMAIN chat_context' /\ chat_context'[c] = chat_context[c]
        /\ DOMAIN chat_context' \subseteq DOMAIN chat_context
    ]_vars

\* C15 witness: unload_chat_context of a chat that has no entry, while
\* another chat has one, has returned false
C15_Witness ==
  /\ engCall.op = "unload_chat_context" /\ ~engCall.ret
  /\ engCall.chat \notin engCall.had
  /\ engCall.had # {} /\ DOMAIN chat_context = engCall.had

\* Apart from the value reported for a missing entry the unload is as claimed
EngUnloadRemovesEntry ==
  [][ engCall'.op = "unload_chat_context" =>
        /\ engCall'.ret <=> engCall'.chat \in DOMAIN chat_context
        /\ engCall'.chat \notin DOMAIN chat_context'
        /\ \A c \in DOMAIN chat_context \ {engCall'.chat} :
             c \in DOMAIN chat_context' /\ chat_context'[c] = chat_context[c]
    ]_vars

\* the step is a generate_turn that has passed the checks of ODAISdk
TurnCalled ==
  /\ ragCall'.op = "generate_streaming_chat_response" /\ gen.pc = "idle"
  /\ m_sdkInitialized

\* C16: generate_turn returns -1 before any model work when the retrieval
\* mode is always or dynamic and the retrieval configuration is absent, names
\* no semantic space or names one that is not stored, and also when the chat
\* has no configuration or no callback is passed: no model is loaded, the
\* session cache and the path cache are untouched, no generation is started
\* and nothing is written to the database.
C16_RefusedBeforeModelWork ==
  [][ ( /\ TurnCalled
        /\ \/ ~ragCall'.cb
           \/ ~DbGetChatConfig(DbNow, ragCall'.chat).ret
           \/ /\ ragCall'.rag.mode \in {"always", "dynamic"}
              /\ ragCall'.rag.config \in {"none", "empty_name", "unknown_space"} )
      => /\ ragCall'.n = -1
         /\ gen' = Idle
         /\ UNCHANGED <<llmModel, llmVocab, llm_model_config, chat_context>>
         /\ UNCHANGED <<m_modelPathCache, tables, durable,
                        m_transaction, m_transaction_depth>>
    ]_vars

\* C16 witness: a turn in mode dynamic that names an unknown semantic space
\* has been refused for a chat whose model is registered but not loaded
C16_Witness ==
  /\ ragCall.op = "generate_streaming_chat_response" /\ ragCall.n = -1
  /\ ragCall.rag = [mode |-> "dynamic", config |-> "unknown_space"]
  /\ ragCall.cb
  /\ DbGetChatConfig(DbNow, ragCall.chat).ret
  /\ DbGetModel(DbNow, "m1").ret
  /\ llmModel = "" /\ chat_context = NoContexts

(***************************************************************************)
(* Claims about the model registry (SpecRegistry)                          *)
(***************************************************************************)

\* what resolve_model_path has done, name being stored with a path or not
ResolvedAsClaimed ==
  LET name == ragCall'.chat
      stored == StoredModel(m_db, tables, name)
  IN /\ ragCall'.ret <=> stored.ret
     /\ ragCall'.ret => ragCall'.path = stored.path
     /\ name \in DOMAIN m_modelPathCache =>
          /\ ragCall'.path = m_modelPathCache[name]
          /\ m_modelPathCache' = m_modelPathCache
     /\ (name \notin DOMAIN m_modelPathCache /\ stored.ret) =>
          m_modelPathCache' = PutPath(m_modelPathCache, name, stored.path)
     /\ ~stored.ret => m_modelPathCache' = m_modelPathCache
     /\ tables' = tables /\ durable' = durable

\* C17: resolve_model_path succeeds exactly when the name is registered and
\* yields the path stored for it: from the cache when the name is cached,
\* else from storage, and then the cache gets the entry; an unknown name
\* fails and leaves the cache alone.
C17_ResolveCacheFirst ==
  [][ragCall'.op = "resolve_model_path" => ResolvedAsClaimed]_vars

\* C17 witness: m1 is cached but its registration has been rolled back, and
\* resolve_model_path has answered with the cached path
C17_Witness ==
  /\ ragCall.op = "resolve_model_path" /\ ragCall.ret
  /\ ragCall.chat = "m1" /\ ragCall.path = CachedPath(m_modelPathCache, "m1")
  /\ m_db /\ ~StoredModel(m_db, tables, "m1").ret

\* every cached name is stored with the cached path
CacheCoherent ==
  \A name \in DOMAIN m_modelPathCache :
    /\ StoredModel(m_db, tables, name).ret
    /\ StoredModel(m_db, tables, name).path = m_modelPathCache[name]

\* resolve_model_path is as claimed whenever the cache agrees with storage
ResolveCacheFirstWhenCoherent ==
  [][(ragCall'.op = "resolve_model_path" /\ CacheCoherent) => ResolvedAsClaimed]_vars

\* resolve_model_path has filled the cache from storage
ResolvedFromStorage ==
  /\ ragCall.op = "resolve_model_path" /\ ragCall.ret
  /\ ragCall.chat = "m2" /\ ragCall.path = "pB"
  /\ CachedPath(m_modelPathCache, "m2") = "pB"
  /\ StoredModel(m_db, tables, "m2").path = "pB"

\* C18: register_model fails when the file cannot be read or the name is
\* registered already, and then the models table and the path cache are what
\* they were; when it succeeds the record of the name with the path, the
\* type and the checksum of the file is stored and resolve_model_path yields
\* the path.
C18_RegisterChecked ==
  [][ ragCall'.op = "register_model" =>
        LET name == ragCall'.chat
            path == ragCall'.path
        IN /\ ( \/ FileChecksum(path) = ""
                \/ StoredModel(m_db, tables, name).ret )
              => /\ ~ragCall'.ret
                 /\ tables'.models = tables.models
                 /\ durable'.models = durable.models
                 /\ m_modelPathCache' = m_modelPathCache
           /\ ragCall'.ret =>
                /\ [name |-> name, path |-> path, type |-> "LLM",
                    checksum |-> FileChecksum(path)] \in tables'.models
                /\ \A r \in tables'.models : r.name = name => r.path = path
                /\ LET after == RagResolveModelPath(
                                  [D |-> [db |-> m_db', tables |-> tables'],
                                   cache |-> m_modelPathCache'], name)
                   IN after.ok /\ after.path = path
    ]_vars

\* C18 witness: m1 is registered at pA and the registration of m1 at pB has
\* been refused
C18_Witness ==
  /\ ragCall.op = "register_model" /\ ~ragCall.ret
  /\ ragCall.chat = "m1" /\ ragCall.path = "pB"
  /\ StoredModel(m_db, tables, "m1").path = "pA"
  /\ StoredModel(m_db, tables, "m1").checksum = "ckA"
  /\ CachedPath(m_modelPathCache, "m1") = "pA"

\* the sequence_index values of a chat are 0, 1, ... without gap or repeat
SeqIndexed(t, chat) ==
  {r.sequence_index : r \in RowsOf(t, chat)}
    = 0..(Cardinality(RowsOf(t, chat)) - 1)

\* the messages the last create_chat or insert_chat_messages call had to insert
InsertedBy(call, msgs, t) ==
  IF call.op = "insert_chat_messages" THEN msgs
  ELSE IF DbGetChatConfig([db |-> TRUE, tables |-> t], call.chat).ret
       THEN <<[role |-> "system",
               content |-> DbGetChatConfig([db |-> TRUE, tables |-> t],
                                           call.chat).chat_config.system_prompt]>>
       ELSE <<>>

\* C19: in every chat, whatever create_chat, insert_chat_messages, begin,
\* commit and rollback calls have been made, the sequence_index values are
\* pairwise distinct and count up from 0 (each is the greatest existing one
\* plus 1), and a call that inserts messages appends them, in the order they
\* were handed over, to the history get_chat_history returned of the rows
\* that existed, so that the history is in insertion order.
C19_SequenceIndexInInsertionOrder ==
  [][ /\ \A chat \in ChatIds :
           SeqIndexed(tables', chat) /\ SeqIndexed(durable', chat)
      /\ dbCall'.op \in {"insert_chat_messages", "create_chat"} =>
           \E base \in {tables, durable} :
             \E k \in 0..Len(InsertedBy(dbCall', batch', tables')) :
               /\ GetChatHistory(tables', dbCall'.chat)
                    = GetChatHistory(base, dbCall'.chat)
                        \o SubSeq(InsertedBy(dbCall', batch', tables'), 1, k)
               /\ \A r \in RowsOf(tables', dbCall'.chat) \ RowsOf(base, dbCall'.chat) :
                    \A q \in RowsOf(base, dbCall'.chat) :
                      q.sequence_index < r.sequence_index
               /\ (dbCall'.op = "insert_chat_messages" /\ dbCall'.ret)
                    => k = Len(batch')
    ]_vars

\* C19 witness: a message inserted after the rows of a transaction that was
\* left open have been rolled back follows the system prompt of its chat
C19_Witness ==
  /\ dbCall.op = "insert_chat_messages" /\ dbCall.ret
  /\ dbCall.chat = "c1" /\ "ROLLBACK" \in dbCall.ev
  /\ batch = <<[role |-> "user", content |-> TextQ]>>
  /\ GetChatHistory(tables, "c1")
       = <<[role |-> "system", content |-> TextSys],
           [role |-> "user", content |-> TextQ]>>
  /\ {r.sequence_index : r \in RowsOf(tables, "c1")} = {0, 1}
  /\ durable = tables

\* the same of the rows generate_turn stores (Spec)
SeqIndexedInEveryChat ==
  \A chat \in ChatIds : SeqIndexed(tables, chat) /\ SeqIndexed(durable, chat)

\* a turn has been stored behind the system prompt (Spec)
TurnStoredInOrder ==
  \E chat \in ChatIds :
    /\ Len(GetChatHistory(durable, chat)) = 3
    /\ GetChatHistory(durable, chat)[1].role = "system"
    /\ GetChatHistory(durable, chat)[2].role = "user"
    /\ GetChatHistory(durable, chat)[3].role = "assistant"

\* the chat row of chat and its system prompt as the first message are in t
ChatWithPrompt(t, chat) ==
  /\ \E c \in t.chats : c.chat_id = chat
  /\ RowsOf(t, chat) # {}
  /\ GetChatHistory(t, chat)[1]
       = [role |-> "system",
          content |-> DbGetChatConfig([db |-> TRUE, tables |-> t],
                                      chat).chat_config.system_prompt]

\* C20: create_chat returns true only when the chat row and the system
\* prompt as the first message of the chat are stored and committed; when it
\* returns false it has stored neither.
C20_CreateChatAllOrNothing ==
  [][ dbCall'.op = "create_chat" =>
        /\ dbCall'.ret => ChatWithPrompt(durable', dbCall'.chat)
        /\ ~dbCall'.ret =>
             /\ tables'.chats \subseteq tables.chats
             /\ tables'.chat_messages \subseteq tables.chat_messages
             /\ durable'.chats \subseteq durable.chats
             /\ durable'.chat_messages \subseteq durable.chat_messages
    ]_vars

\* C20 witness: create_chat has returned true outside of any transaction and
\* neither the chat nor a message of it is stored
C20_Witness ==
  /\ dbCall.op = "create_chat" /\ dbCall.ret /\ dbCall.chat = "c1"
  /\ m_transaction_depth = 0 /\ ~m_transaction
  /\ "BEGIN" \in dbCall.ev /\ "ROLLBACK" \in dbCall.ev
  /\ tables = EmptyTables /\ durable = EmptyTables

\* create_chat of a chat without messages that has returned true at depth 0
\* without a failure of BEGIN, of COMMIT or of a statement has stored both
\* (holds)
CreateChatStoredBoth ==
  [][ ( /\ dbCall'.op = "create_chat" /\ dbCall'.ret
        /\ m_transaction_depth = 0 /\ ~m_transaction
        /\ RowsOf(tables, dbCall'.chat) = {}
        /\ dbCall'.ev = {"BEGIN", "COMMIT"} /\ ~m_transaction' )
        => ChatWithPrompt(durable', dbCall'.chat)
    ]_vars

(***************************************************************************)
(* Claims about the SDK in front of the stores (checked under Spec)        *)
(***************************************************************************)

\* the chat row and the rows of the messages of chat in t
ChatOf(t, chat) ==
  [chats |-> {c \in t.chats : c.chat_id = chat}, rows |-> RowsOf(t, chat)]

\* C21: chat_id_exists(id) is true exactly when a chat with that id is
\* stored; create_chat with an id passed by the caller and a sane config
\* succeeds, storing the chat, when no chat has the id, and fails, leaving the
\* chat and its history as they were, when one has.
C21_SuppliedIdCreatesIffFree ==
  [][ ( /\ ragCall'.op = "create_chat" /\ ragCall'.path # ""
        /\ ragCall'.sane /\ m_sdkInitialized )
      => LET id == ragCall'.chat
             stored == \E c \in tables.chats : c.chat_id = id
         IN /\ DbChatIdExists(DbNow, id) <=> stored
            /\ ~stored => ragCall'.ret /\ ChatWithPrompt(tables', id)
            /\ stored => /\ ~ragCall'.ret
                         /\ ChatOf(tables', id) = ChatOf(tables, id)
                         /\ ChatOf(durable', id) = ChatOf(durable, id)
    ]_vars

\* C21 witness: create_chat with the id c1 and a sane config has been refused
\* and no chat c1 is stored
C21_Witness ==
  /\ ragCall.op = "create_chat" /\ ragCall.path = "c1" /\ ragCall.sane
  /\ ~ragCall.ret /\ m_sdkInitialized
  /\ ChatOf(tables, "c1") = [chats |-> {}, rows |-> {}]
  /\ ChatOf(durable, "c1") = [chats |-> {}, rows |-> {}]

\* create_chat with an id that is taken fails and leaves the chat as it was
\* (holds)
CreateChatOnTakenIdFails ==
  [][ ( /\ ragCall'.op = "create_chat" /\ ragCall'.path # ""
        /\ \E c \in tables.chats : c.chat_id = ragCall'.chat )
      => /\ ~ragCall'.ret
         /\ ChatOf(tables', ragCall'.chat) = ChatOf(tables, ragCall'.chat)
         /\ ChatOf(durable', ragCall'.chat) = ChatOf(durable, ragCall'.chat)
    ]_vars

\* the operations of the SDK other than initialize_sdk, those of them that
\* take a chat id, and those that take a query and a callback
SdkOps ==
  {"create_chat", "load_chat", "get_chat_history", "unload_chat",
   "generate_streaming_response", "generate_streaming_chat_response",
   "create_semantic_space", "get_semantic_space_config",
   "list_semantic_spaces", "delete_semantic_space"}
SdkChatOps ==
  {"load_chat", "get_chat_history", "unload_chat",
   "generate_streaming_chat_response"}
SdkStreamingOps ==
  {"generate_streaming_response", "generate_streaming_chat_response"}

\* the store, the path cache and the state of the inference engine
SdkResources ==
  <<m_db, m_transaction_depth, m_transaction, tables, durable,
    m_modelPathCache, isInitialized, llm_model_config, llmModel, llmVocab,
    chat_context>>

\* C22: a call of an SDK operation other than initialize_sdk that is made
\* while the SDK is not initialized, or with an empty chat id, an empty query
\* or no callback, returns its failure value and leaves store, path cache and
\* engine as they were; no generation is started by such a call.
C22_RefusedBeforeAnyResource ==
  [][ /\ ( /\ ragCall'.op \in SdkOps
           /\ \/ ~m_sdkInitialized
              \/ ragCall'.op \in SdkChatOps /\ ragCall'.chat = ""
              \/ ragCall'.op \in SdkStreamingOps
                   /\ (ragCall'.noQuery \/ ~ragCall'.cb) )
         => /\ ~ragCall'.ret
            /\ ragCall'.op \in SdkStreamingOps => ragCall'.n = -1
            /\ SdkResources' = SdkResources
      /\ (gen.pc = "idle" /\ gen'.pc # "idle")
         => /\ m_sdkInitialized
            /\ gen'.chat # "" => /\ buffer_ctx'.chat = gen'.chat
                                 /\ buffer_ctx'.prompt # <<>>
    ]_vars

\* C22 witness: the database is open behind an SDK whose engine did not
\* initialize, a chat is stored in it, and load_chat of that chat has been
\* refused
C22_Witness ==
  /\ ~m_sdkInitialized /\ m_db /\ ~isInitialized
  /\ ragCall.op = "load_chat" /\ ragCall.chat = "c1" /\ ~ragCall.ret
  /\ ChatWithPrompt(durable, "c1")
  /\ StoredModel(m_db, durable, "m1").ret
  /\ m_modelPathCache = NoPaths /\ chat_context = NoContexts

\* a turn with an empty query has been refused by an initialized SDK whose
\* chat and model are stored (reachable)
EmptyQueryRefused ==
  /\ m_sdkInitialized /\ ragCall.op = "generate_streaming_chat_response"
  /\ ragCall.chat = "c1" /\ ragCall.noQuery /\ ragCall.cb /\ ragCall.n = -1
  /\ ChatWithPrompt(durable, "c1") /\ StoredModel(m_db, durable, "m1").ret
  /\ chat_context = NoContexts

\* the tokens of the history of chat in t, formatted through the chat
\* template of the resident model and tokenized into an empty context
HistoryTokens(model, vocab, t, chat) ==
  Tokenize([llmVocab |-> vocab],
           FormatChatMessagesToPrompt([llmModel |-> model],
                                      GetChatHistory(t, chat), FALSE, FALSE),
           TRUE)

\* C23: whenever ensure_chat_session_loaded succeeds, for a chat whose
\* context it builds and for a chat whose context is cached alike, the decode
\* context of the chat holds as many tokens as the stored history of the
\* chat has when it is formatted through the chat template.
C23_ContextHoldsFormattedHistory ==
  [][ (EnsureCalled /\ ragCall'.ret) =>
        /\ ragCall'.chat \in DOMAIN chat_context'
        /\ chat_context'[ragCall'.chat].n_past
             = HistoryTokens(llmModel', llmVocab', tables', ragCall'.chat)
    ]_vars

\* C23 witness: load_chat has succeeded on the cached context of a chat
\* whose turn has been stored, and the context holds more tokens than the
\* formatted history has
C23_Witness ==
  /\ ragCall.op = "load_chat" /\ ragCall.ret /\ ragCall.chat = "c1"
  /\ "c1" \in DOMAIN chat_context /\ chat_context["c1"].turns = 1
  /\ Len(GetChatHistory(durable, "c1")) = 3 /\ tables = durable
  /\ chat_context["c1"].n_past > HistoryTokens(llmModel, llmVocab, tables, "c1")

\* the same for the contexts the call builds (holds)
BuiltContextHoldsFormattedHistory ==
  [][ ( /\ EnsureCalled /\ ragCall'.ret
        /\ ragCall'.chat \notin DOMAIN chat_context
        /\ ragCall'.chat \in DOMAIN chat_context' )
      => chat_context'[ragCall'.chat].n_past
           = HistoryTokens(llmModel', llmVocab', tables', ragCall'.chat)
    ]_vars

(***************************************************************************)
(* More claims about the chat store (checked under SpecDb)                 *)
(***************************************************************************)

\* C24: commit_transaction called at depth 0 returns false and changes
\* nothing: the depth stays 0, no physical COMMIT is issued, a handle that is
\* held stays held, and neither the committed data nor what the connection
\* reads changes.
C24_CommitAtDepthZeroFails ==
  [][ (dbCall'.op = "commit_transaction" /\ m_transaction_depth = 0) =>
        /\ ~dbCall'.ret
        /\ m_transaction_depth' = 0
        /\ "COMMIT" \notin dbCall'.ev
        /\ m_transaction' = m_transaction
        /\ durable' = durable /\ tables' = tables
    ]_vars

\* C24 witness: a nesting of depth two has been rolled back, and the commit
\* of the outer level that followed has failed
C24_Witness ==
  /\ dbCall.op = "commit_transaction" /\ ~dbCall.ret /\ m_db
  /\ m_transaction_depth = 0 /\ ~m_transaction
  /\ phys = [opens |-> 1, commits |-> 0, deepest |-> 2]
  /\ tables = durable

(***************************************************************************)
(* Claims about the turns of a chat (checked under SpecTurn)               *)
(***************************************************************************)

\* the step is the return of a generate_turn whose generation has returned a
\* count, with nothing failing while the exchange is saved and no handle of a
\* transaction left behind outside of a nesting
TurnGenerated ==
  /\ ragCall'.op = "generate_streaming_chat_response"
  /\ ragCall'.total >= 0
  /\ ragCall'.f = NoFault
  /\ m_transaction => m_transaction_depth > 0

TurnAtEogStored ==
  /\ ragCall.op = "generate_streaming_chat_response" /\ ~ragCall.refused
  /\ ragCall.f = NoFault /\ ragCall.n = 21 /\ Len(ragCall.chunks) = 2
  /\ GetChatHistory(durable, "c1")
       = <<[role |-> "system", content |-> TextSys]>> \o TurnExchange(ragCall)

\* the last message of the history of chat in t
LastMessage(t, chat) ==
  GetChatHistory(t, chat)[Len(GetChatHistory(t, chat))]

TurnOfTwoChunksStored ==
  /\ ragCall.op = "generate_streaming_chat_response" /\ ragCall.n = 21
  /\ Len(ragCall.chunks) = 2 /\ ragCall.chunks[2] # <<>>
  /\ LastMessage(durable, "c1")
       = [role |-> "assistant", content |-> ragCall.chunks[1] \o ragCall.chunks[2]]

(***************************************************************************)
(* More claims about the chat sessions (checked under Spec)                *)
(***************************************************************************)

\* chat has a cached context and the path its model resolves to is the path
\* recorded as loaded
CacheHit(chat) ==
  /\ m_sdkInitialized /\ DbGetChatConfig(DbNow, chat).ret
  /\ chat \in DOMAIN chat_context
  /\ LET r == RagResolveModelPath(
                RagNow, DbGetChatConfig(DbNow, chat).chat_config.modelName)
     IN r.ok /\ r.path = llm_model_config

\* the resident model and what is recorded of it
LoadedModel == <<llm_model_config, llmModel, llmVocab>>

\* C27: when the chat has a cached context and its model is the one loaded,
\* load_chat succeeds, whatever the inference runtime would refuse, and
\* leaves the loaded model and every cached context as they were;
\* generate_turn starts on the cached context of the chat, which it extends
\* and does not rebuild, and leaves the model and the other contexts as they
\* were.
C27_CacheHitIsNoOp ==
  [][ /\ (ragCall'.op = "load_chat" /\ CacheHit(ragCall'.chat))
         => /\ ragCall'.ret
            /\ chat_context' = chat_context
            /\ LoadedModel' = LoadedModel
      /\ ( /\ gen.pc = "idle" /\ gen'.pc # "idle"
           /\ gen'.op = "generate_streaming_chat_response"
           /\ CacheHit(gen'.chat) )
         => /\ DOMAIN chat_context' = DOMAIN chat_context
            /\ \A c \in DOMAIN chat_context \ {gen'.chat} :
                 chat_context'[c] = chat_context[c]
            /\ chat_context'[gen'.chat].model = chat_context[gen'.chat].model
            /\ chat_context'[gen'.chat].n_past > chat_context[gen'.chat].n_past
            /\ LoadedModel' = LoadedModel
    ]_vars

\* C27 witness: load_chat has succeeded on the context a turn was generated
\* on, while the context of the other chat is cached too
C27_Witness ==
  /\ ragCall.op = "load_chat" /\ ragCall.ret /\ ragCall.chat = "c1"
  /\ DOMAIN chat_context = {"c1", "c2"}
  /\ chat_context["c1"].turns = 1 /\ chat_context["c2"].turns = 0
  /\ llm_model_config = "pA" /\ llmModel = "pA"

\* a turn is running on a context that load_chat had cached (reachable)
TurnOnCachedContext ==
  /\ gen.pc # "idle" /\ gen.op = "generate_streaming_chat_response"
  /\ gen.chat = "c1" /\ DOMAIN chat_context = {"c1", "c2"}
  /\ chat_context["c1"].turns = 1 /\ chat_context["c2"].turns = 1

\* what is stored, and the state of the transaction
StoreState == <<m_db, tables, durable, m_transaction_depth, m_transaction>>

\* the tokens a context built from the history h holds: the begin-of-sequence
\* token, a piece for each role and one for each byte of content, and one for
\* the empty user turn exactly when h is the system message alone
ExpectedTokens(h) ==
  1 + MessagesSize(h) + (IF Len(h) = 1 /\ h[1].role = "system" THEN 1 ELSE 0)

\* C28: load_chat changes nothing that is stored, whether it succeeds or
\* fails; the context it builds holds the formatted history, with the empty
\* user turn exactly when the history is the system message alone.
C28_LoadChatLeavesStore ==
  [][ ragCall'.op = "load_chat" =>
        /\ StoreState' = StoreState
        /\ ( /\ ragCall'.ret
             /\ ragCall'.chat \notin DOMAIN chat_context )
           => /\ ragCall'.chat \in DOMAIN chat_context'
              /\ chat_context'[ragCall'.chat].n_past
                   = ExpectedTokens(GetChatHistory(tables, ragCall'.chat))
    ]_vars

\* C28 witness: the context of c1 has been built from the system prompt and
\* the empty user turn, four tokens, and the history is the system prompt
C28_Witness ==
  /\ ragCall.op = "load_chat" /\ ragCall.ret /\ ragCall.chat = "c1"
  /\ "c1" \in DOMAIN chat_context
  /\ chat_context["c1"] = [model |-> "pA", n_past |-> 4, turns |-> 0]
  /\ GetChatHistory(durable, "c1") = <<[role |-> "system", content |-> TextSys]>>
  /\ tables = durable

\* a context has been built from a history of three messages, without the
\* empty user turn (reachable)
ContextOfThreeMessages ==
  /\ ragCall.op = "load_chat" /\ ragCall.ret
  /\ ragCall.chat \in DOMAIN chat_context
  /\ chat_context[ragCall.chat].turns = 0
  /\ Len(GetChatHistory(tables, ragCall.chat)) = 3
  /\ chat_context[ragCall.chat].n_past
       = 1 + MessagesSize(GetChatHistory(tables, ragCall.chat))

\* load_chat has failed on a stored chat and the store is what it was
\* (reachable)
LoadChatFailedOnStoredChat ==
  /\ ragCall.op = "load_chat" /\ ~ragCall.ret /\ m_sdkInitialized
  /\ ChatWithPrompt(durable, ragCall.chat)
  /\ ragCall.chat \notin DOMAIN chat_context

\* a step of the one-shot completion: its loop goes on, or the call returns
OneShotStep ==
  \/ ragCall'.op = "generate_streaming_response"
  \/ /\ gen'.pc \in {"loop", "callback"}
     /\ gen'.op = "generate_streaming_response"

\* C29: the one-shot completion works on a context of its own while it runs,
\* holds none once it has returned on whatever path, adds no context to the
\* cached ones and changes none of them that stays, and writes nothing to
\* the store.
C29_OneShotOwnsItsContext ==
  [][ OneShotStep =>
        /\ StoreState' = StoreState
        /\ DOMAIN chat_context' \subseteq DOMAIN chat_context
        /\ \A c \in DOMAIN chat_context' : chat_context'[c] = chat_context[c]
        /\ gen'.pc \in {"loop", "callback"}
             => gen'.chat = "" /\ gen'.ctx # NoContext /\ gen'.ctx.model = llmModel'
        /\ ragCall'.op = "generate_streaming_response" => gen' = Idle
    ]_vars

\* C29 witness: a one-shot completion has returned the tokens it counted
\* while the context of a chat is cached with its turn, and holds no context
C29_Witness ==
  /\ ragCall.op = "generate_streaming_response" /\ ragCall.n > 0
  /\ ~ragCall.refused
  /\ gen = Idle
  /\ \E c \in DOMAIN chat_context : chat_context[c].turns = 1
  /\ \E c \in ChatIds : Len(GetChatHistory(durable, c)) = 3

\* the callback has ended a one-shot completion (reachable)
OneShotCancelled ==
  /\ ragCall.op = "generate_streaming_response" /\ ragCall.refused
  /\ ragCall.n > 0 /\ gen = Idle

\* a one-shot completion has failed inside its loop (reachable)
OneShotFailedInLoop ==
  /\ ragCall.op = "generate_streaming_response" /\ ragCall.n < 0
  /\ ragCall.total = -1 /\ m_sdkInitialized /\ llmModel # "" /\ gen = Idle
  /\ ~ragCall.noQuery /\ ragCall.cb

\* a one-shot completion that loaded another model has dropped the cached
\* contexts (reachable)
OneShotDroppedContexts ==
  /\ ragCall.op = "generate_streaming_response" /\ ragCall.n > 0
  /\ chat_context = NoContexts
  /\ \E c \in ChatIds : Len(GetChatHistory(durable, c)) = 3

\* the persistence flag of the stored config of chat; a chat that is not
\* stored has none
PersistenceOf(t, chat) ==
  DbGetChatConfig([db |-> TRUE, tables |-> t], chat).chat_config.persistence

\* the step is the return of a generate_turn with a count on a stored chat
TurnReturnedCount ==
  /\ ragCall'.op = "generate_streaming_chat_response"
  /\ ragCall'.n >= 0
  /\ DbGetChatConfig([db |-> TRUE, tables |-> tables], ragCall'.chat).ret

\* C30: a generate_turn that returns a count appends the user message and the
\* assistant message to the history of a chat created with persistence, and
\* writes no message for a chat created without.
C30_PersistenceDecides ==
  [][ TurnReturnedCount =>
        IF PersistenceOf(tables, ragCall'.chat)
        THEN GetChatHistory(tables', ragCall'.chat)
               = GetChatHistory(tables, ragCall'.chat) \o TurnExchange(ragCall')
        ELSE RowsOf(tables', ragCall'.chat) = RowsOf(tables, ragCall'.chat)
    ]_vars

\* C30 witness: a turn on c2, created without persistence, has returned its
\* count and its two messages are stored after the system prompt
C30_Witness ==
  /\ ragCall.op = "generate_streaming_chat_response" /\ ragCall.n >= 0
  /\ ragCall.chat = "c2"
  /\ ~PersistenceOf(durable, "c2")
  /\ GetChatHistory(durable, "c2")
       = <<[role |-> "system", content |-> TextSys]>> \o TurnExchange(ragCall)

\* with persistence the exchange is appended (holds)
PersistentTurnStored ==
  [][ (TurnReturnedCount /\ PersistenceOf(tables, ragCall'.chat))
        => GetChatHistory(tables', ragCall'.chat)
             = GetChatHistory(tables, ragCall'.chat) \o TurnExchange(ragCall')
    ]_vars

\* a turn on c1, created with persistence, has been stored (reachable)
PersistentTurnReturned ==
  /\ ragCall.op = "generate_streaming_chat_response" /\ ragCall.n >= 0
  /\ ragCall.chat = "c1" /\ PersistenceOf(tables, "c1")
  /\ Len(GetChatHistory(tables, "c1")) = 3

(***************************************************************************)
(* Claims about get_safe_utf8_length (SpecGen: the buffers the flushes of  *)
(* the generation loop hand to it)                                         *)
(***************************************************************************)

\* the bytes a character that begins with the byte c has, 0 when c begins none
CharBytes(c) ==
  IF c < 128 THEN 1
  ELSE IF c >= 192 /\ c < 224 THEN 2
  ELSE IF c >= 224 /\ c < 240 THEN 3
  ELSE IF c >= 240 /\ c < 248 THEN 4
  ELSE 0

\* s is the lead byte of a character and some, not all, of its continuation
\* bytes
IncompleteChar(s) ==
  /\ Len(s) >= 1
  /\ Len(s) < CharBytes(s[1])
  /\ \A k \in 2..Len(s) : s[k] >= 128 /\ s[k] < 192

\* s is a prefix of a well-formed UTF-8 string
Utf8Prefix(s) ==
  \E k \in 0..3 :
    /\ k <= Len(s)
    /\ Utf8Complete(SubSeq(s, 1, Len(s) - k))
    /\ k > 0 => IncompleteChar(SubSeq(s, Len(s) - k + 1, Len(s)))

\* the buffers get_safe_utf8_length has been called with by the flushes of
\* the run: what the flush before held back and the pieces of the tokens
\* flushed
FlushedBuffers == {TheRun.chunks[i] \o TheRun.tails[i] : i \in 1..Len(TheRun.chunks)}

\* the buffers the function is applied to: those of the flushes, and every
\* prefix of the text generated so far, the empty one among them
SafeLengthInputs ==
  FlushedBuffers \cup {SubSeq(TheRun.text, 1, n) : n \in 0..Len(TheRun.text)}

\* C31: for a buffer that is a prefix of a well-formed UTF-8 string,
\* get_safe_utf8_length returns r with 0 <= len - r <= 3, r = 0 for the empty
\* buffer, r = len when the buffer ends with a whole character, and otherwise
\* the bytes from r on are the lead byte and the continuation bytes of one
\* incomplete character, after whole characters.
C31_SafeLengthCutsBeforeOpenCharacter ==
  TheRun.pc # "idle" =>
    \A buffer \in SafeLengthInputs :
      LET len == Len(buffer)
          r == GetSafeUtf8Length(buffer)
      IN Utf8Prefix(buffer) =>
           /\ 0 <= len - r /\ len - r <= 3
           /\ len = 0 => r = 0
           /\ Utf8Complete(buffer) => r = len
           /\ Utf8Complete(SubSeq(buffer, 1, r))
           /\ r < len => IncompleteChar(SubSeq(buffer, r + 1, len))

\* C31 witness: a flush has called it with a buffer that ends with the first
\* three of the four bytes of a character, and it has cut before them
C31_Witness ==
  /\ TheRun.pc # "idle"
  /\ \E buffer \in FlushedBuffers :
       /\ Len(buffer) >= 5 /\ Utf8Prefix(buffer)
       /\ SubSeq(buffer, Len(buffer) - 2, Len(buffer)) = TokSm1 \o TokSm2 \o TokSm3
       /\ GetSafeUtf8Length(buffer) = Len(buffer) - 3

\* every buffer handed to it is a prefix of a well-formed string, and what it
\* returned is the length of the chunk (holds)
FlushedBuffersArePrefixes ==
  TheRun.pc # "idle" =>
    \A i \in 1..Len(TheRun.chunks) :
      /\ Utf8Prefix(TheRun.chunks[i] \o TheRun.tails[i])
      /\ GetSafeUtf8Length(TheRun.chunks[i] \o TheRun.tails[i]) = Len(TheRun.chunks[i])

\* no flush hands it the empty buffer, which is among the prefixes of the
\* text (holds)
NoEmptyBufferFlushed == TheRun.pc # "idle" => <<>> \notin FlushedBuffers

\* it has been called with two of three bytes; with one of two (reachable)
FlushedTwoOfThree ==
  /\ TheRun.pc # "idle"
  /\ \E b \in FlushedBuffers : Len(b) >= 2 /\ SubSeq(b, Len(b) - 1, Len(b)) = TokEu1 \o TokEu2
FlushedOneOfTwo ==
  /\ TheRun.pc # "idle"
  /\ \E b \in FlushedBuffers : Len(b) >= 1 /\ b[Len(b)] = 195

(***************************************************************************)
(* Claims about the coherence of the model path cache (SpecRegistry)       *)
(***************************************************************************)

\* C32: whenever the SDK is initialized, every name in the path cache is
\* stored with the cached path, whatever register_model, resolve_model_path
\* and update_model_path calls have succeeded or failed; after a successful
\* update_model_path the stored path and the cached path are the new path.
C32_PathCacheAgreesWithStore ==
  /\ [](m_sdkInitialized => CacheCoherent)
  /\ [][ (ragCall'.op = "update_model_path" /\ ragCall'.ret) =>
           /\ CachedPath(m_modelPathCache', ragCall'.chat) = ragCall'.path
           /\ StoredModel(m_db', tables', ragCall'.chat).path = ragCall'.path
       ]_vars

\* C32 witness: the SDK is initialized, m1 is cached at pA and no model m1 is
\* stored: the create_chat that has just returned has rolled the open
\* transaction back, the registration of m1 with it
C32_Witness ==
  /\ m_sdkInitialized /\ m_db
  /\ ragCall.op = "create_chat"
  /\ CachedPath(m_modelPathCache, "m1") = "pA"
  /\ ~StoredModel(m_db, tables, "m1").ret
  /\ ~StoredModel(m_db, durable, "m1").ret

RegistryOps == {"register_model", "resolve_model_path", "update_model_path"}

\* register_model, resolve_model_path and update_model_path keep the cache in
\* agreement with the store, whether they succeed or fail (holds)
RegistryCallsKeepCoherence ==
  [][ (ragCall'.op \in RegistryOps /\ CacheCoherent) => CacheCoherent' ]_vars

\* a successful update_model_path changes the stored and the cached path
\* (holds)
UpdateChangesBoth ==
  [][ (ragCall'.op = "update_model_path" /\ ragCall'.ret) =>
        /\ CachedPath(m_modelPathCache', ragCall'.chat) = ragCall'.path
        /\ StoredModel(m_db', tables', ragCall'.chat).path = ragCall'.path
    ]_vars

\* update_model_path has moved a cached model (reachable)
UpdatedCachedModel ==
  /\ ragCall.op = "update_model_path" /\ ragCall.ret /\ ragCall.path = "pA2"
  /\ CachedPath(m_modelPathCache, ragCall.chat) = "pA2"
  /\ StoredModel(m_db, tables, ragCall.chat).path = "pA2"

(***************************************************************************)
(* Claims about the count of consumed tokens of a decode context (SpecGen) *)
(***************************************************************************)

\* the tokens the context of the run in flight has consumed
ConsumedNow == GenCtx(EngNow).n_past
\* and after the step, which may be the return of the run
ConsumedNext == IF gen'.pc = "idle" THEN engCall'.run.ctx.n_past ELSE gen'.ctx.n_past

\* token sequences to load: none, one, what fills the window, one more
LoadSizes(ctx) == {0, 1, N_CTX - ctx.n_past, N_CTX - ctx.n_past + 1}

\* C33: the count of consumed tokens of a decode context never exceeds the
\* window and never decreases; a successful load of n tokens adds n, a load
\* that does not fit fails and adds none, a load of no tokens succeeds and
\* adds none; in the generation loop each token fed adds one and the
\* callback adds none.
C33_ConsumedTokensCount ==
  /\ [](gen.pc \in {"loop", "callback"} =>
          /\ ConsumedNow >= 0 /\ ConsumedNow <= N_CTX
          /\ \A n \in LoadSizes(GenCtx(EngNow)), decodeFail \in BOOLEAN :
               LET r == LoadTokensIntoContextImpl(GenCtx(EngNow), n, decodeFail)
               IN /\ r.ctx.n_past = ConsumedNow + (IF r.ok THEN n ELSE 0)
                  /\ r.ctx.n_past <= N_CTX
                  /\ n = 0 => r.ok
                  /\ ConsumedNow + n > N_CTX => ~r.ok
                  /\ (n > 0 /\ ConsumedNow + n <= N_CTX /\ ~decodeFail) => r.ok)
  /\ [][ gen.pc \in {"loop", "callback"} =>
           /\ ConsumedNext >= ConsumedNow /\ ConsumedNext <= N_CTX
           /\ gen.pc = "callback" => ConsumedNext = ConsumedNow
           /\ (gen.pc = "loop" /\ gen'.pc # "idle") => ConsumedNext = ConsumedNow + 1
           /\ gen.pc = "loop" => ConsumedNext \in {ConsumedNow, ConsumedNow + 1}
           /\ (gen.pc = "loop" /\ ConsumedNow = N_CTX) =>
                gen'.pc = "idle" /\ engCall'.n = -1 /\ ConsumedNext = N_CTX
       ]_vars

\* C33 witness: MaxGenTokens tokens have filled the window and the run has
\* ended with -1 on the token that found no room
C33_Witness ==
  /\ engCall.op = "generate_streaming_response" /\ engCall.n = -1
  /\ engCall.run.pc = "done"
  /\ engCall.run.total_tokens = MaxGenTokens
  /\ engCall.run.ctx.n_past = N_CTX

\* a prompt that does not fit the fresh context has been refused with
\* nothing consumed (reachable)
PromptTooLongRefused ==
  /\ engCall.op = "generate_streaming_response" /\ engCall.n = -1
  /\ engCall.run.pc = "done" /\ engCall.run.ctx # NoContext
  /\ engCall.run.ctx.n_past = 0 /\ engCall.run.sinceCb = 0

(***************************************************************************)
(* Claims about the balance of the transaction scopes (SpecDb)             *)
(***************************************************************************)

\* C34: create_chat and insert_chat_messages called at depth 0 with no
\* transaction open return at depth 0 with no transaction open, whether
\* they succeed or fail.
C34_ScopesBalanced ==
  [][ ( /\ dbCall'.op \in {"create_chat", "insert_chat_messages"}
        /\ m_transaction_depth = 0 /\ ~m_transaction )
      => m_transaction_depth' = 0 /\ ~m_transaction' ]_vars

\* C34 witness: create_chat, called at depth 0, has failed at its INSERT and
\* returned with the transaction it began still open at depth 1
C34_Witness ==
  /\ dbCall.op = "create_chat" /\ ~dbCall.ret
  /\ "BEGIN" \in dbCall.ev /\ "ROLLBACK" \notin dbCall.ev
  /\ m_transaction_depth = 1 /\ m_transaction
  /\ phys = [opens |-> 1, commits |-> 0, deepest |-> 1]

\* an insert_chat_messages that returned true inside a scope that is open,
\* as the one create_chat leaves open is, is not committed (reachable)
InsertInsideLeftOpenScope ==
  /\ dbCall.op = "insert_chat_messages" /\ dbCall.ret
  /\ dbCall.ev = {}
  /\ m_transaction_depth = 1 /\ m_transaction
  /\ tables # durable

(***************************************************************************)
(* Claims about the model the engine records as loaded (SpecEngine)        *)
(***************************************************************************)

\* C35: when load_language_model(path) returns true the model loaded from
\* path and its vocabulary are resident, and the path the engine records as
\* loaded never names a model that is not resident.
C35_RecordedModelIsResident ==
  /\ [](llm_model_config # "" =>
          llmModel = llm_model_config /\ llmVocab = llm_model_config)
  /\ [][ (engCall'.op = "load_language_model" /\ engCall'.ret) =>
           llmModel' = engCall'.chat /\ llmVocab' = engCall'.chat ]_vars

\* C35 witness: load_language_model(pA) has returned true, pA is recorded as
\* loaded and no model is resident
C35_Witness ==
  /\ engCall.op = "load_language_model" /\ engCall.ret /\ engCall.chat = "pA"
  /\ llm_model_config = "pA"
  /\ llmModel = ""

\* a load that finds another path recorded loads the model or fails (holds)
LoadOfOtherPathLoads ==
  [][ ( /\ engCall'.op = "load_language_model" /\ engCall'.ret
        /\ engCall'.chat # llm_model_config ) =>
        llmModel' = engCall'.chat /\ llmVocab' = engCall'.chat ]_vars

(***************************************************************************)
(* Claims about the termination of the generation loop (SpecLoop)          *)
(***************************************************************************)

\* C36: every call of the generation loop returns, whatever the sampler
\* yields and the callback answers: every token generated is in the window,
\* so no more tokens are generated than the window has room for after the
\* prompt, and the iteration that finds the window full ends the call with -1.
C36_LoopEndsWhenWindowIsFull ==
  /\ (gen.pc # "idle") ~> (gen.pc = "idle")
  /\ [](gen.pc # "idle" => gen.total_tokens < ConsumedNow /\ ConsumedNow <= N_CTX)
  /\ [][ (gen.pc = "loop" /\ ConsumedNow = N_CTX) =>
           gen'.pc = "idle" /\ engCall'.n = -1 ]_vars

\* C36 witness: after a prompt of 2 pieces the model has never ended the
\* generation and the callback has always answered true: the call has
\* returned -1 on the token that found the window full
C36_Witness ==
  /\ engCall.op = "generate_streaming_response" /\ engCall.n = -1
  /\ engCall.run.pc = "done" /\ ~engCall.run.sawEog /\ ~engCall.run.refused
  /\ engCall.run.ctx.n_past = N_CTX
  /\ engCall.run.total_tokens = N_CTX - 3
  /\ engCall.run.produced = N_CTX - 2

(***************************************************************************)
(* Claims about the agreement of cached contexts and stored histories      *)
(* (Spec)                                                                  *)
(***************************************************************************)

\* the tokens the context of chat held, or would have been built with, before
\* the step
TokensBefore(chat) ==
  IF chat \in DOMAIN chat_context THEN chat_context[chat].n_past
  ELSE HistoryTokens(llmModel', llmVocab', tables, chat)

\* C37: when generate_turn returns and the chat still has a cached context,
\* the context holds the turn exactly when the history does: a turn whose
\* prompt has entered the context is stored as the exchange that ends the
\* history, and a turn that is not stored has left the context with the
\* tokens it had.
C37_ContextAndHistoryAgreeByTurn ==
  [][ ( /\ ragCall'.op = "generate_streaming_chat_response"
        /\ ragCall'.chat \in DOMAIN chat_context' )
      => LET chat == ragCall'.chat
         IN IF chat_context'[chat].n_past > TokensBefore(chat)
               \/ gen.pc \in {"loop", "callback"}
            THEN GetChatHistory(tables', chat)
                   = GetChatHistory(tables, chat) \o TurnExchange(ragCall')
            ELSE RowsOf(tables', chat) = RowsOf(tables, chat)
    ]_vars

\* C37 witness: the sampler has failed in a turn on c1, generate_turn has
\* returned -1 and stored nothing, and the cached context of c1 holds more
\* tokens than the history it was built from
C37_Witness ==
  /\ ragCall.op = "generate_streaming_chat_response" /\ ragCall.chat = "c1"
  /\ ragCall.n = -1 /\ ragCall.total = -1
  /\ "c1" \in DOMAIN chat_context /\ chat_context["c1"].turns = 1
  /\ GetChatHistory(durable, "c1") = <<[role |-> "system", content |-> TextSys]>>
  /\ tables = durable /\ ~m_transaction
  /\ chat_context["c1"].n_past > HistoryTokens(llmModel, llmVocab, tables, "c1")

\* a turn in flight has loaded its prompt into the context of its chat (holds)
TurnInFlightHoldsPrompt ==
  [][ ( /\ gen.pc = "idle" /\ gen'.pc \in {"loop", "callback"}
        /\ gen'.op = "generate_streaming_chat_response" )
      => chat_context'[gen'.chat].n_past >= TokensBefore(gen'.chat) + 3
    ]_vars

\* a turn that returns without having entered the loop stores nothing and
\* leaves the context with the tokens it had (holds)
TurnRefusedLeavesContext ==
  [][ ( /\ ragCall'.op = "generate_streaming_chat_response"
        /\ gen.pc = "idle"
        /\ ragCall'.chat \in DOMAIN chat_context' )
      => /\ RowsOf(tables', ragCall'.chat) = RowsOf(tables, ragCall'.chat)
         /\ chat_context'[ragCall'.chat].n_past = TokensBefore(ragCall'.chat)
    ]_vars

(***************************************************************************)
(* Claims about calls made from inside the callback (SpecReentrant)        *)
(***************************************************************************)

\* C38: while a generation is in flight the context and the sampler it works
\* on are there and the model they are bound to is resident, whatever the
\* callback calls on the SDK.
C38_InFlightResourcesHeld ==
  gen.pc \in {"loop", "callback"} => RunResourcesHeld

\* C38 witness: the callback, asked after 20 tokens of a turn on c1 that has
\* not ended, has called unload_chat(c1), which has returned true: the
\* context of the run in flight is released
C38_Witness ==
  /\ gen.pc = "callback" /\ ~gen.atEog
  /\ gen.op = "generate_streaming_chat_response" /\ gen.chat = "c1"
  /\ gen.total_tokens = FlushEvery
  /\ ragCall.op = "unload_chat" /\ ragCall.chat = "c1" /\ ragCall.ret
  /\ "c1" \notin DOMAIN chat_context
  /\ llmModel = "pA"

\* the callback has started a one-shot completion on another model: every
\* context is released and the model of the run in flight is replaced
\* (reachable)
ModelSwitchedInFlight ==
  /\ gen.pc = "callback" /\ ~gen.atEog /\ gen.chat = "c1"
  /\ ragCall.op = "generate_streaming_response"
  /\ chat_context = NoContexts
  /\ llmModel = "pB"

\* when the callback calls nothing the resources stay (holds)
ResourcesHeldUnlessReentered ==
  [][ ( /\ gen.pc \in {"loop", "callback"} /\ RunResourcesHeld
        /\ gen'.pc \in {"loop", "callback"}
        /\ ragCall'.op = "running" )
      => RunResourcesHeld' ]_vars

\* ---------------------------------------------------------------------
\* C39: whenever the SDK reports itself initialized, the orchestrator exists
\* and the database and the engine it refers to are the ones the SDK holds,
\* after any sequence of initialize_sdk calls; a call of initialize_sdk that
\* fails once the database has been replaced leaves the SDK not initialized,
\* so that the public operations fail and do not run on a replaced instance.
C39_InitializedMeansBound ==
  m_sdkInitialized => m_ragEngine = "bound"

\* initialize_sdk has returned false at the test of the backend config on an
\* initialized SDK: the database is a new one, the flag still stands
C39_Witness ==
  /\ ragCall.op = "initialize_sdk" /\ ragCall.path = "bad_backend_config"
  /\ ~ragCall.ret
  /\ m_sdkInitialized /\ m_ragEngine = "unbound" /\ m_db

\* the calls of initialize_sdk that get past both config tests leave the
\* flag and the orchestrator in agreement
InitializeSdkKeepsBound ==
  [][ (ragCall'.op = "initialize_sdk" /\ ragCall'.path = "")
        => (m_sdkInitialized' <=> m_ragEngine' = "bound") ]_vars

\* a call of initialize_sdk that returns at a config test leaves the flag
\* as it was
BadConfigKeepsFlag ==
  [][ (ragCall'.op = "initialize_sdk" /\ ragCall'.path # "")
        => m_sdkInitialized' = m_sdkInitialized ]_vars

\* load_chat has gone on through the destroyed database and has returned true
StaleLoadChatReturnedTrue ==
  /\ ragCall.op = "load_chat" /\ ragCall.ret
  /\ m_sdkInitialized /\ m_ragEngine = "unbound"

\* ---------------------------------------------------------------------
\* the model of the chat is registered at the file that is loaded
ModelAlreadyLoaded(chat) ==
  /\ m_sdkInitialized /\ DbGetChatConfig(DbNow, chat).ret
  /\ LET r == RagResolveModelPath(
                RagNow, DbGetChatConfig(DbNow, chat).chat_config.modelName)
     IN r.ok /\ r.path = llm_model_config /\ llmModel # ""

\* the step is made by unload_chat on the chat, or by load_chat or
\* generate_turn on it with its model loaded as the call begins
SessionStepOn(chat) ==
  \/ ragCall'.op = "unload_chat" /\ ragCall'.chat = chat
  \/ /\ gen.pc = "idle" /\ ModelAlreadyLoaded(chat)
     /\ \/ ragCall'.op = "load_chat" /\ ragCall'.chat = chat
        \/ /\ ragCall'.op = "generate_streaming_chat_response"
           /\ ragCall'.chat = chat
        \/ /\ gen'.pc \in {"loop", "callback"}
           /\ gen'.op = "generate_streaming_chat_response"
           /\ gen'.chat = chat
  \/ /\ gen.pc \in {"loop", "callback"}
     /\ gen.op = "generate_streaming_chat_response" /\ gen.chat = chat

\* every other chat keeps its cached context, or stays without one, and
\* keeps its history, as the connection reads it and as the file holds it
OtherChatsKept(chat) ==
  \A d \in ChatIds \ {chat} :
    /\ (d \in DOMAIN chat_context') <=> (d \in DOMAIN chat_context)
    /\ d \in DOMAIN chat_context => chat_context'[d] = chat_context[d]
    /\ RowsOf(tables', d) = RowsOf(tables, d)
    /\ RowsOf(durable', d) = RowsOf(durable, d)

ModelAndRegistryKept ==
  /\ llmModel' = llmModel /\ llmVocab' = llmVocab
  /\ llm_model_config' = llm_model_config
  /\ tables'.models = tables.models /\ durable'.models = durable.models

\* C40: unload_chat on a chat, and load_chat or generate_turn on it when its
\* model is the one already loaded, change at most the cached context and
\* the history of that chat: the cached context and the stored history of
\* every other chat, the loaded model and the model registry stay as they
\* are.
C40_SessionsIsolated ==
  [][ \A chat \in ChatIds :
        SessionStepOn(chat) => OtherChatsKept(chat) /\ ModelAndRegistryKept
    ]_vars

\* C40 witness: a turn on c1 has returned with its exchange stored while c2
\* holds a cached context and a history of its own
C40_Witness ==
  /\ ragCall.op = "generate_streaming_chat_response" /\ ragCall.ret
  /\ ragCall.chat = "c1"
  /\ {"c1", "c2"} \subseteq DOMAIN chat_context
  /\ Len(GetChatHistory(tables, "c1")) >= 3
  /\ RowsOf(tables, "c2") # {}

\* a session step made while no transaction scope is open keeps the other
\* chats, the model and the registry
IsolatedOutsideOpenScope ==
  [][ \A chat \in ChatIds :
        (SessionStepOn(chat) /\ m_transaction_depth = 0 /\ ~m_transaction)
          => OtherChatsKept(chat) /\ ModelAndRegistryKept
    ]_vars

\* the exchange of a turn could not be stored, and the rollback has taken a
\* registered model out of what the connection reads
TurnRollbackTookRegistryRow ==
  /\ ragCall.op = "generate_streaming_chat_response" /\ ~ragCall.ret
  /\ ragCall.f.at > 0
  /\ tables.models = {} /\ llm_model_config # ""

====
